---------------------------- MODULE Spec2Model ----------------------------
(***************************************************************************)
(* A model of two sectorlisp interpreters.                                 *)
(*                                                                         *)
(* The sign-tagged interpreter (the modernized C source): the word arena   *)
(* with its symbol table and cons heap, the lookahead character source,    *)
(* the tokenizer, the interner, the reader, the printer, the evaluator     *)
(* (eval / evcon / evlis / apply) and the per-eval copy-and-slide          *)
(* collector.  Its state is the variables mem, heap_ptr, ... below.        *)
(*                                                                         *)
(* The struct-based interpreter lisp_gdb.c: a heap of typed objects, a     *)
(* table of interned strings, its own character source, reader, printer    *)
(* and evaluator.  Its state is the record g.                              *)
(*                                                                         *)
(* A behaviour runs one of the two (impl) on one session of input lines.   *)
(* A machine is a record; every C function is an operator from a machine   *)
(* record to a machine record (and a value).  The functions that recurse   *)
(* over the program (the reader's get_list, eval, evcon, evlis, apply,     *)
(* main) are run step by step on an explicit stack of frames, one action   *)
(* per step; the others (tokenizer, interner, printer, cons, gc, pairlis,  *)
(* assoc) are computed within one step.                                    *)
(***************************************************************************)
EXTENDS Integers, Sequences, FiniteSets, TLC

(***************************************************************************)
(* Bounds of the model.  The source's arena has 32768 words; the model     *)
(* checks an arena of MEMORY_SIZE words, split at its midpoint as in the   *)
(* source.                                                                  *)
(***************************************************************************)
MEMORY_SIZE == 512

(***************************************************************************)
(* Program constants.                                                      *)
(***************************************************************************)
SYMBOL_NIL == 0
SYMBOL_T == 4
SYMBOL_QUOTE == 6
SYMBOL_COND == 12
SYMBOL_READ == 17
SYMBOL_PRINT == 22
SYMBOL_ATOM == 28
SYMBOL_CAR == 33
SYMBOL_CDR == 37
SYMBOL_CONS == 41
SYMBOL_EQ == 46

SPACE == 32
LPAREN == 40
RPAREN == 41
NEWLINE == 10
DOT == 8729
BYTE == 256

\* The names of the tokens used in the sessions, as character codes.
Word ==
  [NIL |-> <<78, 73, 76>>, T |-> <<84>>, QUOTE |-> <<81, 85, 79, 84, 69>>,
   COND |-> <<67, 79, 78, 68>>, READ |-> <<82, 69, 65, 68>>,
   PRINT |-> <<80, 82, 73, 78, 84>>, ATOM |-> <<65, 84, 79, 77>>,
   CAR |-> <<67, 65, 82>>, CDR |-> <<67, 68, 82>>,
   CONS |-> <<67, 79, 78, 83>>, EQ |-> <<69, 81>>,
   A |-> <<65>>, B |-> <<66>>, C |-> <<67>>, X |-> <<88>>, Y |-> <<89>>,
   F |-> <<70>>, P |-> <<80>>, FF |-> <<70, 70>>, CA |-> <<67, 65>>,
   CARS |-> <<67, 65, 82, 83>>]
  @@ ("LAMBDA" :> <<76, 65, 77, 66, 68, 65>>)
  @@ ("FLATTEN" :> <<70, 76, 65, 84, 84, 69, 78>>)
  @@ ("(" :> <<40>>) @@ (")" :> <<41>>)
  @@ ("A!B" :> <<65, 33, 66>>)

BuiltinNames ==
  <<"NIL", "T", "QUOTE", "COND", "READ", "PRINT", "ATOM", "CAR", "CDR",
    "CONS", "EQ">>

RECURSIVE JoinNul(_)
JoinNul(names) ==
  IF Len(names) = 1 THEN Word[names[1]]
  ELSE Word[names[1]] \o <<0>> \o JoinNul(Tail(names))

\* The string literal BUILTIN_SYMBOLS with its terminating NUL: sizeof of it.
BUILTIN_SYMBOLS == JoinNul(BuiltinNames) \o <<0>>

(***************************************************************************)
(* The arena.  symbol_table = memory + MEMORY_SIZE / 2, so the model       *)
(* indexes the arena as the source does through symbol_table: index i is   *)
(* memory[i + Half].                                                       *)
(***************************************************************************)
Half == MEMORY_SIZE \div 2
Lo == 0 - Half
Hi == MEMORY_SIZE - Half - 1
Arena == Lo .. Hi

IS_CONS(obj) == obj < 0
IS_ATOM(obj) == obj >= 0

Halted(m) == m.status # "running"

\* A read of symbol_table[i].
Rd(m, i) == IF i \in Arena THEN m.mem[i] ELSE 0

\* A write symbol_table[i] = v by the code of `kind`.  A write outside the
\* array is undefined behaviour: the run stops there with status "ub", and
\* the writes the code goes on to make are recorded without their effect.
Wr(m, i, v, kind) ==
  IF m.status = "exited" THEN m
  ELSE IF i \in Arena /\ m.status = "running"
       THEN [m EXCEPT !.mem[i] = v, !.wr = @ \cup {[k |-> kind, i |-> i]}]
       ELSE [m EXCEPT !.status = "ub", !.wr = @ \cup {[k |-> kind, i |-> i]}]

(***************************************************************************)
(* Input / output.                                                         *)
(***************************************************************************)
print_char(m, ch) == [m EXCEPT !.out = Append(@, ch)]

\* input_line is <<>> for NULL and <<line>> otherwise; input_pos is the
\* 1-based position in the line, *input_pos == '\0' when it is past its end.
AtEnd(m) == m.input_pos > Len(m.input_line[1])

get_char(m) ==
  LET need == m.input_line = <<>> \/ AtEnd(m)
      eof == need /\ m.source = <<>>
      m1 == IF need /\ ~eof
            THEN [m EXCEPT !.input_line = <<Head(m.source)>>,
                           !.input_pos = 1,
                           !.source = Tail(m.source)]
            ELSE m
      more == ~AtEnd(m1)
      cur == IF more THEN m1.input_line[1][m1.input_pos] % BYTE ELSE NEWLINE
      m2 == IF more THEN [m1 EXCEPT !.input_pos = @ + 1] ELSE m1
  IN  IF eof
      THEN [m |-> [print_char(m, NEWLINE) EXCEPT !.status = "exited",
                                               !.input_line = <<>>],
            v |-> 0]
      ELSE [m |-> [m2 EXCEPT !.lookahead_char = cur,
                             !.consumed = @ + 1],
            v |-> m.lookahead_char]

\* A call whose value r = [m, v] is handed to the code F that follows it;
\* nothing follows once the run has stopped.
Then(r, F(_, _)) == IF Halted(r.m) THEN r ELSE F(r.m, r.v)

\* The same for code F that yields the machine only.
Do(r, F(_, _)) == IF Halted(r.m) THEN r.m ELSE F(r.m, r.v)

\* The do-while loop of get_token; i is the index into memory[].
RECURSIVE get_token_loop(_, _)

\* The loop body after ch = get_char().
get_token_body(m, ch, i) ==
  LET m1 == IF ch > SPACE THEN Wr(m, Lo + i, ch, "token") ELSE m
      i1 == IF ch > SPACE THEN i + 1 ELSE i
  IN  IF Halted(m1) THEN [m |-> m1, v |-> 0]
      ELSE IF ch <= SPACE \/ (ch > RPAREN /\ m1.lookahead_char > RPAREN)
           THEN get_token_loop(m1, i1)
           ELSE [m |-> Wr(m1, Lo + i1, 0, "token"), v |-> ch]

get_token_loop(m, i) ==
  Then(get_char(m), LAMBDA m1, ch : get_token_body(m1, ch, i))

get_token(m) == get_token_loop(m, 0)

\* The token staged in memory[0..], up to its NUL.
RECURSIVE TokenFrom(_, _)
TokenFrom(m, j) ==
  IF Rd(m, Lo + j) = 0 \/ Lo + j > Hi THEN <<>>
  ELSE <<Rd(m, Lo + j)>> \o TokenFrom(m, j + 1)

Token(m) == TokenFrom(m, 0)

(***************************************************************************)
(* Symbol interning.                                                       *)
(***************************************************************************)
\* The copy loop: while ((symbol_table[i++] = memory[j++]) != 0).
RECURSIVE intern_copy(_, _, _)
intern_copy(m, i, j) ==
  LET c == Rd(m, Lo + j)
      m1 == Wr(m, i, c, "intern")
  IN  IF c = 0 \/ Halted(m1) THEN m1 ELSE intern_copy(m1, i + 1, j + 1)

\* while (x != 0) x = symbol_table[i++]; the value is i after the loop.
RECURSIVE intern_skip(_, _, _)
intern_skip(m, x, i) ==
  IF x = 0 \/ i > Hi + 1 THEN i ELSE intern_skip(m, Rd(m, i), i + 1)

\* The comparison loop ending at the end of the token alone.
RECURSIVE intern_compare_prefix(_, _, _, _)
intern_compare_prefix(m, x, i, j) ==
  IF Rd(m, Lo + j) = 0 THEN [found |-> TRUE, i |-> i - j - 1]
  ELSE IF x # Rd(m, Lo + j)
  THEN [found |-> FALSE, i |-> intern_skip(m, x, i)]
  ELSE intern_compare_prefix(m, Rd(m, i), i + 1, j + 1)

\* The inner comparison loop, entered with x read and i already advanced.
\* The value is [found, at] on a match and [found, i] after the skip.
RECURSIVE intern_compare(_, _, _, _)
intern_compare(m, x, i, j) ==
  IF x # Rd(m, Lo + j) THEN [found |-> FALSE, i |-> intern_skip(m, x, i)]
  ELSE IF x = 0 THEN [found |-> TRUE, i |-> i - j - 1]
  ELSE intern_compare(m, Rd(m, i), i + 1, j + 1)

\* The outer for loop, i the index of the next table entry.
RECURSIVE intern_search(_, _)
intern_search(m, i) ==
  LET x == Rd(m, i)
      c == intern_compare(m, x, i + 1, 0)
  IN  IF x = 0 \/ i > Hi THEN [found |-> FALSE, i |-> i]
      ELSE IF c.found THEN c
      ELSE intern_search(m, c.i)

\* Lines 213-217: the token is appended at s.i unless the search found it.
intern_append(m, s) ==
  [m |-> [(IF s.found THEN m ELSE intern_copy(m, s.i, 0))
            EXCEPT !.ilog = @ \cup {<<Token(m), s.i>>}],
   v |-> s.i]

intern_symbol(m) == intern_append(m, intern_search(m, 0))

(***************************************************************************)
(* Primitives.                                                             *)
(***************************************************************************)
car(m, obj) == Rd(m, obj)
cdr(m, obj) == Rd(m, obj + 1)

\* cons with a cursor that grows upward.
cons_up(m, car_val, cdr_val) ==
  LET m1 == Wr(m, m.heap_ptr, car_val, "cons")
      m2 == Wr(m1, m.heap_ptr + 1, cdr_val, "cons")
  IN  IF Halted(m2) THEN [m |-> m2, v |-> 0]
      ELSE [m |-> [m2 EXCEPT !.heap_ptr = m.heap_ptr + 2],
            v |-> m.heap_ptr]

\* cons with the two stores exchanged.
cons_swapped(m, car_val, cdr_val) ==
  LET m1 == Wr(m, m.heap_ptr - 1, car_val, "cons")
      m2 == Wr(m1, m.heap_ptr - 2, cdr_val, "cons")
  IN  IF Halted(m2) THEN [m |-> m2, v |-> 0]
      ELSE [m |-> [m2 EXCEPT !.heap_ptr = m.heap_ptr - 2],
            v |-> m.heap_ptr - 2]

cons(m, car_val, cdr_val) ==
  LET m1 == Wr(m, m.heap_ptr - 1, cdr_val, "cons")
      m2 == Wr(m1, m.heap_ptr - 2, car_val, "cons")
  IN  IF Halted(m2) THEN [m |-> m2, v |-> 0]
      ELSE [m |-> [m2 EXCEPT !.heap_ptr = m.heap_ptr - 2],
            v |-> m.heap_ptr - 2]

(***************************************************************************)
(* Printer.                                                                *)
(***************************************************************************)
\* print_atom that stops after the first character of the name.
print_atom_first(m, obj) ==
  LET ch == Rd(m, obj)
  IN  IF ch = 0 THEN m ELSE print_char(m, ch)

RECURSIVE print_atom(_, _)
print_atom(m, obj) ==
  LET ch == Rd(m, obj)
  IN  IF ch = 0 \/ obj > Hi THEN m ELSE print_atom(print_char(m, ch), obj + 1)

RECURSIVE print_object(_, _)
RECURSIVE print_tail(_, _)

\* The loop of print_list writing a space in front of an atom tail.
RECURSIVE print_tail_space(_, _)
print_tail_space(m, obj) ==
  LET next == cdr(m, obj)
  IN  IF next = 0 THEN m
      ELSE IF IS_CONS(next)
           THEN print_tail_space(
                  print_object(print_char(m, SPACE), car(m, next)), next)
           ELSE print_object(print_char(m, SPACE), next)

\* The while loop of print_list, entered with obj the cell just printed.
print_tail(m, obj) ==
  LET next == cdr(m, obj)
  IN  IF next = 0 THEN m
      ELSE IF IS_CONS(next)
           THEN print_tail(print_object(print_char(m, SPACE), car(m, next)),
                           next)
           ELSE print_object(print_char(m, DOT), next)

print_list(m, obj) ==
  print_char(print_tail(print_object(print_char(m, LPAREN), car(m, obj)),
                        obj),
             RPAREN)

print_object(m, obj) ==
  IF IS_CONS(obj) THEN print_list(m, obj) ELSE print_atom(m, obj)

print_expression(m, obj) == print_object(m, obj)

print_newline(m) == print_char(m, NEWLINE)

\* The characters print_expression emits for obj.
Printed(m, obj) == print_expression([m EXCEPT !.out = <<>>], obj).out

(***************************************************************************)
(* Garbage collection and the evaluator's helpers.                         *)
(*                                                                         *)
(* C leaves the order in which the two arguments of a call are evaluated   *)
(* to the build.  m.build.gc and m.build.pairlis are the build's choice    *)
(* for cons(gc(car), gc(cdr)) and for cons(cons(..), pairlis(..)):         *)
(* "LR" evaluates the first argument first, "RL" the second.               *)
(***************************************************************************)
\* gc without the relocation of the handles it returns.
RECURSIVE gc_no_offset(_, _, _, _)
gc_no_offset(m, obj, mark, offset) ==
  IF Halted(m) THEN [m |-> m, v |-> 0]
  ELSE IF obj >= mark THEN [m |-> m, v |-> obj]
  ELSE Then(gc_no_offset(m, car(m, obj), mark, offset), LAMBDA m1, a :
         Then(gc_no_offset(m1, cdr(m1, obj), mark, offset), LAMBDA m2, d :
           cons(m2, a, d)))

\* The copy relocating its handles by the offset downwards.
RECURSIVE gc_down(_, _, _, _)
gc_down(m, obj, mark, offset) ==
  IF Halted(m) THEN [m |-> m, v |-> 0]
  ELSE IF obj >= mark THEN [m |-> m, v |-> obj]
  ELSE Then(gc_down(m, car(m, obj), mark, offset), LAMBDA m1, a :
         Then(gc_down(m1, cdr(m1, obj), mark, offset), LAMBDA m2, d :
           Then(cons(m2, a, d), LAMBDA m3, c :
             [m |-> m3, v |-> c - offset])))

\* The copy following the car only: the cdr is stored as it is.
RECURSIVE gc_car_only(_, _, _, _)
gc_car_only(m, obj, mark, offset) ==
  IF Halted(m) THEN [m |-> m, v |-> 0]
  ELSE IF obj >= mark THEN [m |-> m, v |-> obj]
  ELSE Then(gc_car_only(m, car(m, obj), mark, offset), LAMBDA m1, a :
         Then(cons(m1, a, cdr(m1, obj)), LAMBDA m2, c :
           [m |-> m2, v |-> c + offset]))

RECURSIVE gc(_, _, _, _)
gc(m, obj, mark, offset) ==
  IF Halted(m) THEN [m |-> m, v |-> 0]
  ELSE IF obj >= mark THEN [m |-> m, v |-> obj]
  ELSE IF m.build.gc = "LR"
  THEN Then(gc(m, car(m, obj), mark, offset), LAMBDA m1, a :
         Then(gc(m1, cdr(m1, obj), mark, offset), LAMBDA m2, d :
           Then(cons(m2, a, d), LAMBDA m3, c :
             [m |-> m3, v |-> c + offset])))
  ELSE Then(gc(m, cdr(m, obj), mark, offset), LAMBDA m1, d :
         Then(gc(m1, car(m1, obj), mark, offset), LAMBDA m2, a :
           Then(cons(m2, a, d), LAMBDA m3, c :
             [m |-> m3, v |-> c + offset])))

\* The slide copying from the bottom up: the same words to the same places,
\* the lowest first.
RECURSIVE slide_up(_, _, _, _)
slide_up(m, saved_heap_ptr, new_heap_ptr, final_heap_ptr) ==
  IF final_heap_ptr < new_heap_ptr /\ ~Halted(m)
  THEN Then(slide_up(m, saved_heap_ptr - 1, new_heap_ptr - 1,
                     final_heap_ptr),
            LAMBDA m1, top :
              [m |-> Wr(m1, saved_heap_ptr - 1, Rd(m1, new_heap_ptr - 1),
                        "slide"),
               v |-> top])
  ELSE [m |-> m, v |-> saved_heap_ptr]

\* while (final_heap_ptr < new_heap_ptr)
\*   symbol_table[--saved_heap_ptr] = symbol_table[--new_heap_ptr];
\* The value is the machine and saved_heap_ptr after the loop.
RECURSIVE slide(_, _, _, _)
slide(m, saved_heap_ptr, new_heap_ptr, final_heap_ptr) ==
  IF final_heap_ptr < new_heap_ptr /\ ~Halted(m)
  THEN slide(Wr(m, saved_heap_ptr - 1, Rd(m, new_heap_ptr - 1), "slide"),
             saved_heap_ptr - 1, new_heap_ptr - 1, final_heap_ptr)
  ELSE [m |-> m, v |-> saved_heap_ptr]

\* The collection without the slide loop.
collect_no_slide(m, expr, saved_heap_ptr) ==
  Then(gc(m, expr, saved_heap_ptr, saved_heap_ptr - m.heap_ptr),
       LAMBDA m1, result :
         [m |-> [m1 EXCEPT !.heap_ptr =
                    saved_heap_ptr - (m.heap_ptr - m1.heap_ptr)],
          v |-> result])

\* The collection without the final heap_ptr = saved_heap_ptr.
collect_keep_cursor(m, expr, saved_heap_ptr) ==
  Then(gc(m, expr, saved_heap_ptr, saved_heap_ptr - m.heap_ptr),
       LAMBDA m1, result :
         Then(slide(m1, saved_heap_ptr, m.heap_ptr, m1.heap_ptr),
              LAMBDA m2, top : [m |-> m2, v |-> result]))

\* Lines 468-479 of eval: copy, slide, reset the cursor.  The value is the
\* relocated result.
collect(m, expr, saved_heap_ptr) ==
  Then(gc(m, expr, saved_heap_ptr, saved_heap_ptr - m.heap_ptr),
       LAMBDA m1, result :
         Then(slide(m1, saved_heap_ptr, m.heap_ptr, m1.heap_ptr),
              LAMBDA m2, top :
                [m |-> [m2 EXCEPT !.heap_ptr = top], v |-> result]))

RECURSIVE pairlis(_, _, _, _)
pairlis(m, keys, values, env) ==
  IF Halted(m) THEN [m |-> m, v |-> 0]
  ELSE IF keys = 0 THEN [m |-> m, v |-> env]
  ELSE IF m.build.pairlis = "LR"
  THEN Then(cons(m, car(m, keys), car(m, values)), LAMBDA m1, p :
         Then(pairlis(m1, cdr(m1, keys), cdr(m1, values), env),
              LAMBDA m2, r : cons(m2, p, r)))
  ELSE Then(pairlis(m, cdr(m, keys), cdr(m, values), env), LAMBDA m1, r :
         Then(cons(m1, car(m1, keys), car(m1, values)),
              LAMBDA m2, p : cons(m2, p, r)))

\* assoc answering with the last pair whose car is key.
RECURSIVE assoc_last(_, _, _)
assoc_last(m, key, alist) ==
  IF alist = 0 THEN 0
  ELSE LET later == assoc_last(m, key, cdr(m, alist))
       IN  IF later # 0 THEN later
           ELSE IF key = car(m, car(m, alist)) THEN cdr(m, car(m, alist))
           ELSE 0

RECURSIVE assoc(_, _, _)
assoc(m, key, alist) ==
  IF alist = 0 THEN 0
  ELSE IF key = car(m, car(m, alist)) THEN cdr(m, car(m, alist))
  ELSE assoc(m, key, cdr(m, alist))

(***************************************************************************)
(* The call stack.  A frame is one activation of main, eval, evcon, evlis  *)
(* or apply: fn and pc say where it stands, x is its first parameter       *)
(* (expr, clauses, forms, fn), env its environment, args the argument list *)
(* of apply or the value evlis holds in `result`, saved the local          *)
(* saved_heap_ptr.  entry_mem and entry_ptr record the arena and the       *)
(* cursor at the entry of an eval call; chain and k number the evlis calls *)
(* of one argument list.  m.ret is the value the last return handed back.  *)
(***************************************************************************)
NoMem == <<>>

Frame(fn, x, env, args) ==
  [fn |-> fn, pc |-> "entry", x |-> x, env |-> env, args |-> args,
   saved |-> 0, entry_mem |-> NoMem, entry_ptr |-> 0, chain |-> 0, k |-> 0]

Top(m) == m.stack[Len(m.stack)]

Push(m, f) == [m EXCEPT !.stack = Append(@, f)]

SetPc(m, pc) == [m EXCEPT !.stack[Len(m.stack)].pc = pc]

Return(m, v) ==
  [m EXCEPT !.stack = SubSeq(@, 1, Len(@) - 1), !.ret = v]

\* A call eval(x, env): the frame notes the arena at its entry.
CallEval(m, x, env) ==
  Push(m, [Frame("eval", x, env, 0) EXCEPT !.entry_mem = m.mem,
                                           !.entry_ptr = m.heap_ptr])

NoRet == [valid |-> FALSE, kind |-> "none", A |-> 0, result |-> 0,
          entry_mem |-> NoMem, depth |-> 0, expr |-> 0, env |-> 0]

\* A return of eval: the record of what it returned, for the properties.
ReturnEval(m, v, kind) ==
  LET f == Top(m)
  IN  [Return(m, v) EXCEPT
         !.lastret = [valid |-> TRUE, kind |-> kind, A |-> f.entry_ptr,
                      result |-> v, entry_mem |-> f.entry_mem,
                      depth |-> Len(m.stack) - 1, expr |-> f.x,
                      env |-> f.env]]

(***************************************************************************)
(* The parser, lines 225-250.  read_expression and get_list take one token *)
(* per step; get_object is the branch on the delimiter in both, add_list   *)
(* the call get_list() and the cons that follows it.  The frame of         *)
(* get_list keeps obj in args.                                             *)
(***************************************************************************)
\* add_list(obj) up to its call get_list().
add_list(m, obj) ==
  Push([m EXCEPT !.stack[Len(m.stack)].args = obj,
                 !.stack[Len(m.stack)].pc = "rest"],
       Frame("get_list", 0, 0, 0))

\* get_object(ch) for a token that is a symbol: intern it, hand it on.
get_object(m, ch) == Do(intern_symbol(m), add_list)

\* read_expression: get_object(get_token()).
ReadExpressionStep(m) ==
  Do(get_token(m),
     LAMBDA m1, ch :
       IF ch = LPAREN
       THEN Push(SetPc(m1, "ret"), Frame("get_list", 0, 0, 0))
       ELSE Do(intern_symbol(m1), Return))

\* The list get_object returned is the value of read_expression.
ReadRetStep(m) == Return(m, m.ret)

\* get_list answering the closing parenthesis with the atom T.
GetListEndT(m) ==
  Do(get_token(m), LAMBDA m1, ch :
       IF ch = RPAREN THEN Return(m1, SYMBOL_T)
       ELSE IF ch = LPAREN THEN Push(SetPc(m1, "obj"), Frame("get_list", 0, 0, 0))
       ELSE get_object(m1, ch))

\* get_list: the token, then return 0 on ')' or add_list(get_object(ch)).
GetListStep(m) ==
  Do(get_token(m),
     LAMBDA m1, ch :
       IF ch = RPAREN THEN Return(m1, 0)
       ELSE IF ch = LPAREN
       THEN Push(SetPc(m1, "obj"), Frame("get_list", 0, 0, 0))
       ELSE get_object(m1, ch))

\* The nested list is read: add_list(obj) calls get_list().
AddListStep(m) == add_list(m, m.ret)

\* return cons(obj, rest)
AddListConsStep(m) == Do(cons(m, Top(m).args, m.ret), Return)

(***************************************************************************)
(* eval, lines 444-480.                                                    *)
(***************************************************************************)
EvalAtomStep(m) ==
  ReturnEval(m, assoc(m, Top(m).x, Top(m).env), "atom")

\* eval answering a QUOTE form with the rest of the form, the list (E).
EvalQuoteRest(m) ==
  ReturnEval(m, cdr(m, Top(m).x), "quote")

EvalQuoteStep(m) ==
  ReturnEval(m, car(m, cdr(m, Top(m).x)), "quote")

EvalCondStep(m) ==
  LET f == Top(m)
      m1 == [m EXCEPT !.stack[Len(m.stack)].saved = m.heap_ptr,
                      !.stack[Len(m.stack)].pc = "gc"]
  IN  Push(m1, Frame("evcon", cdr(m, f.x), f.env, 0))

\* eval noting a saved_heap_ptr one cell above the cursor.
EvalArgsHigh(m) ==
  LET f == Top(m)
      m1 == [m EXCEPT !.stack[Len(m.stack)].saved = m.heap_ptr + 2,
                      !.stack[Len(m.stack)].pc = "args",
                      !.nchain = @ + 1]
  IN  Push(m1, [Frame("evlis", cdr(m, f.x), f.env, 0)
                  EXCEPT !.chain = m.nchain + 1, !.k = 1])

EvalArgsStep(m) ==
  LET f == Top(m)
      m1 == [m EXCEPT !.stack[Len(m.stack)].saved = m.heap_ptr,
                      !.stack[Len(m.stack)].pc = "args",
                      !.nchain = @ + 1]
  IN  Push(m1, [Frame("evlis", cdr(m, f.x), f.env, 0)
                  EXCEPT !.chain = m.nchain + 1, !.k = 1])

EvalApplyStep(m) ==
  LET f == Top(m)
  IN  Push(SetPc(m, "gc"), Frame("apply", car(m, f.x), f.env, m.ret))

\* eval returning the value of evcon or apply as it is.
EvalGcSkip(m) == ReturnEval(m, m.ret, "gc")

EvalGcStep(m) ==
  IF m.collecting
  THEN Do(collect(m, m.ret, Top(m).saved),
          LAMBDA m1, result : ReturnEval(m1, result, "gc"))
  ELSE ReturnEval(m, m.ret, "gc")

(***************************************************************************)
(* evcon, lines 380-386.                                                   *)
(***************************************************************************)
EvconTestStep(m) ==
  LET f == Top(m)
  IN  CallEval(SetPc(m, "test"), car(m, car(m, f.x)), f.env)

\* evcon returning the body of the clause after the one selected.
EvconThenNext(m) ==
  LET f == Top(m)
  IN  CallEval(SetPc(m, "ret"), car(m, cdr(m, car(m, cdr(m, f.x)))), f.env)

EvconThenStep(m) ==
  LET f == Top(m)
  IN  CallEval(SetPc(m, "ret"), car(m, cdr(m, car(m, f.x))), f.env)

EvconElseStep(m) ==
  LET f == Top(m)
  IN  Push(SetPc(m, "ret"), Frame("evcon", cdr(m, f.x), f.env, 0))

EvconRetStep(m) == Return(m, m.ret)

(***************************************************************************)
(* evlis, lines 348-355.  The statement sequence of the source evaluates   *)
(* eval(car(forms)) into `result` before the call evlis(cdr(forms)).       *)
(***************************************************************************)
EvlisOrderReversed == "RL"

EvlisOrder == "LR"

Event(t, f) == [t |-> t, chain |-> f.chain, k |-> f.k]

EvlisCallElement(m) ==
  LET f == Top(m)
  IN  CallEval([m EXCEPT !.evlog = Append(@, Event("start", f))],
               car(m, f.x), f.env)

EvlisCallRest(m) ==
  LET f == Top(m)
  IN  Push(m, [Frame("evlis", cdr(m, f.x), f.env, 0)
                 EXCEPT !.chain = f.chain, !.k = f.k + 1])

EvlisDone(m, first) ==
  IF first THEN [m EXCEPT !.evlog = Append(@, Event("end", Top(m)))] ELSE m

EvlisNilStep(m) == Return(m, 0)

\* The first of the two calls.
EvlisOneStep(m) ==
  IF EvlisOrder = "LR" THEN EvlisCallElement(SetPc(m, "one"))
  ELSE EvlisCallRest(SetPc(m, "one"))

\* The first call returned: keep its value and make the second call.
EvlisTwoStep(m) ==
  LET m1 == [m EXCEPT !.stack[Len(m.stack)].args = m.ret,
                      !.stack[Len(m.stack)].pc = "two"]
  IN  IF EvlisOrder = "LR" THEN EvlisCallRest(EvlisDone(m1, TRUE))
      ELSE EvlisCallElement(m1)

\* Both values are there: return cons(result, rest).
EvlisConsStep(m) ==
  LET f == Top(m)
      m1 == EvlisDone(m, EvlisOrder # "LR")
  IN  Do(IF EvlisOrder = "LR" THEN cons(m1, f.args, m.ret)
         ELSE cons(m1, m.ret, f.args),
         Return)

(***************************************************************************)
(* apply, lines 393-437.                                                   *)
(***************************************************************************)
ApplyLambdaStep(m) ==
  LET f == Top(m)
      params == car(m, cdr(m, f.x))
      body == car(m, cdr(m, cdr(m, f.x)))
  IN  Do(pairlis(m, params, f.args, f.env),
         LAMBDA m1, new_env : CallEval(SetPc(m1, "ret"), body, new_env))

ApplyLookupStep(m) ==
  LET f == Top(m)
  IN  CallEval(SetPc(m, "fn"), f.x, f.env)

ApplyRetryStep(m) ==
  LET f == Top(m)
  IN  Push(SetPc(m, "ret"), Frame("apply", m.ret, f.env, f.args))

ApplyRetStep(m) == Return(m, m.ret)

\* The record of a primitive run by apply: its name and the handle in fn.
NoPrim == [name |-> "none", fn |-> 0]

Prim(m, name) == [m EXCEPT !.prim = [name |-> name, fn |-> Top(m).x]]

ApplyEqStep(m) ==
  LET args == Top(m).args
  IN  Return(Prim(m, "EQ"),
             IF car(m, args) = car(m, cdr(m, args)) THEN SYMBOL_T ELSE 0)

ApplyConsStep(m) ==
  LET args == Top(m).args
  IN  Do(cons(Prim(m, "CONS"), car(m, args), car(m, cdr(m, args))), Return)

\* ATOM answering T for every argument.
ApplyAtomAlways(m) == Return(Prim(m, "ATOM"), SYMBOL_T)

ApplyAtomStep(m) ==
  LET args == Top(m).args
  IN  Return(Prim(m, "ATOM"), IF IS_CONS(car(m, args)) THEN 0 ELSE SYMBOL_T)

ApplyCarStep(m) ==
  Return(Prim(m, "CAR"), car(m, car(m, Top(m).args)))

ApplyCdrStep(m) ==
  Return(Prim(m, "CDR"), cdr(m, car(m, Top(m).args)))

ApplyReadStep(m) ==
  Push(SetPc(Prim(m, "READ"), "ret"), Frame("read", 0, 0, 0))

\* PRINT ending what it prints with a newline.
ApplyPrintLine(m) ==
  LET args == Top(m).args
      m1 == Prim(m, "PRINT")
  IN  Return(IF args # 0
             THEN print_newline(print_expression(m1, car(m1, args)))
             ELSE print_newline(m1),
             0)

ApplyPrintStep(m) ==
  LET args == Top(m).args
      m1 == Prim(m, "PRINT")
  IN  Return(IF args # 0 THEN print_expression(m1, car(m1, args))
             ELSE print_newline(m1),
             0)

\* apply falling back on the lookup: apply(eval(fn, env), args, env).
ApplyNoneLookup(m) ==
  LET f == Top(m)
  IN  CallEval(SetPc(m, "fn"), f.x, f.env)

\* return 0; "should not reach here"
ApplyNoneStep(m) == Return(m, 0)

(***************************************************************************)
(* main, lines 500-505: one iteration of the REPL in three steps.          *)
(***************************************************************************)
MainReadStep(m) ==
  Push(SetPc([m EXCEPT !.heap_ptr = 0], "eval"), Frame("read", 0, 0, 0))

MainEvalStep(m) == CallEval(SetPc(m, "print"), m.ret, 0)

MainPrintStep(m) ==
  SetPc(print_newline(print_expression(m, m.ret)), "read")

(***************************************************************************)
(* Which step the machine takes next, and the step.                        *)
(***************************************************************************)
\* The dispatch with fn >= SYMBOL_EQ for the lookup.
ApplyKindFromEq(fn) ==
  IF IS_CONS(fn) THEN "ApplyLambda"
  ELSE IF fn >= SYMBOL_EQ THEN "ApplyLookup"
  ELSE IF fn = SYMBOL_CONS THEN "ApplyCons"
  ELSE IF fn = SYMBOL_ATOM THEN "ApplyAtom"
  ELSE IF fn = SYMBOL_CAR THEN "ApplyCar"
  ELSE IF fn = SYMBOL_CDR THEN "ApplyCdr"
  ELSE IF fn = SYMBOL_READ THEN "ApplyRead"
  ELSE IF fn = SYMBOL_PRINT THEN "ApplyPrint"
  ELSE "ApplyNone"

ApplyKind(fn) ==
  IF IS_CONS(fn) THEN "ApplyLambda"
  ELSE IF fn > SYMBOL_EQ THEN "ApplyLookup"
  ELSE IF fn = SYMBOL_EQ THEN "ApplyEq"
  ELSE IF fn = SYMBOL_CONS THEN "ApplyCons"
  ELSE IF fn = SYMBOL_ATOM THEN "ApplyAtom"
  ELSE IF fn = SYMBOL_CAR THEN "ApplyCar"
  ELSE IF fn = SYMBOL_CDR THEN "ApplyCdr"
  ELSE IF fn = SYMBOL_READ THEN "ApplyRead"
  ELSE IF fn = SYMBOL_PRINT THEN "ApplyPrint"
  ELSE "ApplyNone"

EvalKind(m, expr) ==
  IF IS_ATOM(expr) THEN "EvalAtom"
  ELSE IF car(m, expr) = SYMBOL_QUOTE THEN "EvalQuote"
  ELSE IF car(m, expr) = SYMBOL_COND THEN "EvalCond"
  ELSE "EvalArgs"

Kind(m) ==
  LET f == Top(m)
  IN  IF Halted(m) THEN "Halted"
      ELSE IF f.fn = "main"
      THEN (IF f.pc = "read" THEN "MainRead"
            ELSE IF f.pc = "eval" THEN "MainEval" ELSE "MainPrint")
      ELSE IF f.fn = "read"
      THEN (IF f.pc = "entry" THEN "ReadExpression" ELSE "ReadRet")
      ELSE IF f.fn = "get_list"
      THEN (IF f.pc = "entry" THEN "GetList"
            ELSE IF f.pc = "obj" THEN "AddList" ELSE "AddListCons")
      ELSE IF f.fn = "eval"
      THEN (IF f.pc = "entry" THEN EvalKind(m, f.x)
            ELSE IF f.pc = "args" THEN "EvalApply" ELSE "EvalGc")
      ELSE IF f.fn = "evcon"
      THEN (IF f.pc = "entry" THEN "EvconTest"
            ELSE IF f.pc = "ret" THEN "EvconRet"
            ELSE IF m.ret # 0 THEN "EvconThen" ELSE "EvconElse")
      ELSE IF f.fn = "evlis"
      THEN (IF f.pc = "entry"
            THEN (IF f.x # 0 THEN "EvlisOne" ELSE "EvlisNil")
            ELSE IF f.pc = "one" THEN "EvlisTwo" ELSE "EvlisCons")
      ELSE (IF f.pc = "entry" THEN ApplyKind(f.x)
            ELSE IF f.pc = "fn" THEN "ApplyRetry" ELSE "ApplyRet")

\* The machine as a step starts: the records of the last step are cleared.
Fresh(m) == [m EXCEPT !.wr = {}, !.lastret = NoRet, !.prim = NoPrim]

StepOf(kind, m) ==
  CASE kind = "MainRead" -> MainReadStep(m)
    [] kind = "MainEval" -> MainEvalStep(m)
    [] kind = "ReadExpression" -> ReadExpressionStep(m)
    [] kind = "ReadRet" -> ReadRetStep(m)
    [] kind = "GetList" -> GetListStep(m)
    [] kind = "AddList" -> AddListStep(m)
    [] kind = "AddListCons" -> AddListConsStep(m)
    [] kind = "MainPrint" -> MainPrintStep(m)
    [] kind = "EvalAtom" -> EvalAtomStep(m)
    [] kind = "EvalQuote" -> EvalQuoteStep(m)
    [] kind = "EvalCond" -> EvalCondStep(m)
    [] kind = "EvalArgs" -> EvalArgsStep(m)
    [] kind = "EvalApply" -> EvalApplyStep(m)
    [] kind = "EvalGc" -> EvalGcStep(m)
    [] kind = "EvconTest" -> EvconTestStep(m)
    [] kind = "EvconThen" -> EvconThenStep(m)
    [] kind = "EvconElse" -> EvconElseStep(m)
    [] kind = "EvconRet" -> EvconRetStep(m)
    [] kind = "EvlisNil" -> EvlisNilStep(m)
    [] kind = "EvlisOne" -> EvlisOneStep(m)
    [] kind = "EvlisTwo" -> EvlisTwoStep(m)
    [] kind = "EvlisCons" -> EvlisConsStep(m)
    [] kind = "ApplyLambda" -> ApplyLambdaStep(m)
    [] kind = "ApplyLookup" -> ApplyLookupStep(m)
    [] kind = "ApplyRetry" -> ApplyRetryStep(m)
    [] kind = "ApplyRet" -> ApplyRetStep(m)
    [] kind = "ApplyEq" -> ApplyEqStep(m)
    [] kind = "ApplyCons" -> ApplyConsStep(m)
    [] kind = "ApplyAtom" -> ApplyAtomStep(m)
    [] kind = "ApplyCar" -> ApplyCarStep(m)
    [] kind = "ApplyCdr" -> ApplyCdrStep(m)
    [] kind = "ApplyRead" -> ApplyReadStep(m)
    [] kind = "ApplyPrint" -> ApplyPrintStep(m)
    [] kind = "ApplyNone" -> ApplyNoneStep(m)
    [] OTHER -> m

Step(m) == StepOf(Kind(m), Fresh(m))

(***************************************************************************)
(* The second implementation, lisp_gdb.c: objects are structs in heap[]    *)
(* (a type tag and a symbol or a car/cdr pair), handles are pointers into  *)
(* heap[], the cursor grows upward and main never calls its collector.     *)
(* The machine is a record g; a pointer &heap[p] is the index p, a symbol  *)
(* pointer symbol_table[n] is the index n, a string is its characters.     *)
(* Its functions carry the prefix gdb_ where the name is taken, its steps  *)
(* the prefix Gdb.                                                         *)
(***************************************************************************)
\* The source's heap has 50000 objects; the model checks a heap of
\* HEAP_SIZE objects.
HEAP_SIZE == 160
SYMBOL_TABLE_SIZE == 10000
SYMBOL_BUFFER_SIZE == 256

\* The frames the C stack has room for.
MaxDepth == 64

\* The strings the out-of-bounds read of init_builtins may find behind
\* BUILTIN_SYMBOLS: none, or the text of the next string literal.
MaxJunk == 1
JunkName == <<SPACE>>

nil_obj == 0
t_obj == 1
quote_obj == 2
cond_obj == 3
read_obj == 4
print_obj == 5
atom_obj == 6
car_obj == 7
cdr_obj == 8
cons_obj == 9
eq_obj == 10

NilObject == [type |-> "NIL", symbol |-> 0, car |-> 0, cdr |-> 0]
AtomObject(symbol) == [type |-> "ATOM", symbol |-> symbol, car |-> 0, cdr |-> 0]
ConsObject(a, d) == [type |-> "CONS", symbol |-> 0, car |-> a, cdr |-> d]

TypeOf(g, obj) == g.heap[obj + 1].type
SymbolOf(g, obj) == g.symbol_table[g.heap[obj + 1].symbol + 1]

\* exit(1) after a message on stderr.
gdb_fail(g, msg) == [g EXCEPT !.err = Append(@, msg), !.status = "failed"]

\* The index of str in symbol_table[from ..], or symbol_count.
RECURSIVE gdb_find(_, _, _)
gdb_find(g, str, i) ==
  IF i >= Len(g.symbol_table) \/ g.symbol_table[i + 1] = str THEN i
  ELSE gdb_find(g, str, i + 1)

intern_string(g, str) ==
  LET i == gdb_find(g, str, 0)
  IN  IF i < Len(g.symbol_table) THEN [m |-> g, v |-> i]
      ELSE IF Len(g.symbol_table) >= SYMBOL_TABLE_SIZE
      THEN [m |-> gdb_fail(g, "Symbol table overflow"), v |-> 0]
      ELSE [m |-> [g EXCEPT !.symbol_table = Append(@, str)], v |-> i]

make_atom(g, symbol) ==
  IF Len(g.heap) >= HEAP_SIZE
  THEN [m |-> gdb_fail(g, "Heap overflow"), v |-> 0]
  ELSE [m |-> [g EXCEPT !.heap = Append(@, AtomObject(symbol))],
        v |-> Len(g.heap)]

\* make_cons with the test heap_ptr > HEAP_SIZE.
make_cons_late(g, a, d) ==
  IF Len(g.heap) > HEAP_SIZE
  THEN [m |-> gdb_fail(g, "Heap overflow"), v |-> 0]
  ELSE [m |-> [g EXCEPT !.heap = Append(@, ConsObject(a, d))],
        v |-> Len(g.heap)]

make_cons(g, a, d) ==
  IF Len(g.heap) >= HEAP_SIZE
  THEN [m |-> gdb_fail(g, "Heap overflow"), v |-> 0]
  ELSE [m |-> [g EXCEPT !.heap = Append(@, ConsObject(a, d))],
        v |-> Len(g.heap)]

gdb_car(g, obj) ==
  IF TypeOf(g, obj) = "NIL" THEN [m |-> g, v |-> nil_obj]
  ELSE IF TypeOf(g, obj) # "CONS"
  THEN [m |-> gdb_fail(g, "CAR of non-cons"), v |-> 0]
  ELSE [m |-> g, v |-> g.heap[obj + 1].car]

gdb_cdr(g, obj) ==
  IF TypeOf(g, obj) = "NIL" THEN [m |-> g, v |-> nil_obj]
  ELSE IF TypeOf(g, obj) # "CONS"
  THEN [m |-> gdb_fail(g, "CDR of non-cons"), v |-> 0]
  ELSE [m |-> g, v |-> g.heap[obj + 1].cdr]

gdb_cons(g, car_val, cdr_val) == make_cons(g, car_val, cdr_val)

is_atom(g, obj) == TypeOf(g, obj) # "CONS"

eq(g, a, b) ==
  IF TypeOf(g, a) = "ATOM" /\ TypeOf(g, b) = "ATOM"
  THEN g.heap[a + 1].symbol = g.heap[b + 1].symbol
  ELSE a = b

(***************************************************************************)
(* lisp_gdb.c: input, output, the reader and the printer.                  *)
(***************************************************************************)
gdb_print_char(g, c) == [g EXCEPT !.out = Append(@, c)]

\* line is <<>> for NULL and <<string>> otherwise, ptr the 1-based position.
gdb_get_char(g) ==
  LET eof == g.line = <<>> /\ g.source = <<>>
      g1 == IF g.line = <<>>
            THEN [g EXCEPT !.line = <<Head(g.source)>>, !.ptr = 1,
                           !.source = Tail(g.source)]
            ELSE g
      more == g1.ptr <= Len(g1.line[1])
      c == IF more THEN g1.line[1][g1.ptr] % BYTE ELSE NEWLINE
      g2 == IF more THEN [g1 EXCEPT !.ptr = @ + 1]
            ELSE [g1 EXCEPT !.line = <<>>, !.ptr = 1]
  IN  IF eof
      THEN [m |-> [gdb_print_char(g, NEWLINE) EXCEPT !.status = "exited"],
            v |-> 0]
      ELSE [m |-> [g2 EXCEPT !.lookahead_char = c, !.consumed = @ + 1],
            v |-> g.lookahead_char]

\* A store symbol_buffer[i] = c; the buffer has SYMBOL_BUFFER_SIZE bytes.
gdb_store(g, buf, c) ==
  IF Len(buf) >= SYMBOL_BUFFER_SIZE THEN [g EXCEPT !.status = "ub"] ELSE g

RECURSIVE gdb_get_token_loop(_, _)

gdb_get_token_body(g, c, buf) ==
  LET g1 == IF c > SPACE THEN gdb_store(g, buf, c) ELSE g
      buf1 == IF c > SPACE THEN Append(buf, c) ELSE buf
  IN  IF Halted(g1) THEN [m |-> g1, v |-> 0]
      ELSE IF c <= SPACE \/ (c > RPAREN /\ g1.lookahead_char > RPAREN)
      THEN gdb_get_token_loop([g1 EXCEPT !.symbol_buffer = buf1], buf1)
      ELSE [m |-> [gdb_store(g1, buf1, 0) EXCEPT !.symbol_buffer = buf1],
            v |-> c]

gdb_get_token_loop(g, buf) ==
  Then(gdb_get_char(g), LAMBDA g1, c : gdb_get_token_body(g1, c, buf))

gdb_get_token(g) == gdb_get_token_loop(g, <<>>)

RECURSIVE gdb_print_string(_, _)
gdb_print_string(g, s) ==
  IF s = <<>> THEN g ELSE gdb_print_string(gdb_print_char(g, Head(s)), Tail(s))

gdb_print_atom(g, obj) ==
  IF TypeOf(g, obj) # "ATOM" THEN g ELSE gdb_print_string(g, SymbolOf(g, obj))

RECURSIVE gdb_print_object(_, _)
RECURSIVE gdb_print_tail(_, _)

\* The while loop of print_list, entered with obj = cdr(obj).  car and cdr
\* are applied to cons objects only here.
gdb_print_tail(g, obj) ==
  IF TypeOf(g, obj) = "NIL" THEN g
  ELSE IF TypeOf(g, obj) = "CONS"
  THEN gdb_print_tail(gdb_print_object(gdb_print_char(g, SPACE),
                                       gdb_car(g, obj).v),
                      gdb_cdr(g, obj).v)
  ELSE gdb_print_object(gdb_print_char(g, DOT), obj)

gdb_print_list(g, obj) ==
  gdb_print_char(
    gdb_print_tail(gdb_print_object(gdb_print_char(g, LPAREN),
                                    gdb_car(g, obj).v),
                   gdb_cdr(g, obj).v),
    RPAREN)

gdb_print_object(g, obj) ==
  IF TypeOf(g, obj) = "NIL" THEN gdb_print_string(g, Word.NIL)
  ELSE IF TypeOf(g, obj) = "ATOM" THEN gdb_print_atom(g, obj)
  ELSE gdb_print_list(g, obj)

\* The characters print_object emits for obj.
GdbPrinted(g, obj) == gdb_print_object([g EXCEPT !.out = <<>>], obj).out

(***************************************************************************)
(* lisp_gdb.c: the call stack.  A frame is one activation of main,         *)
(* read_expr, get_list, eval, evcon, evlis or apply; x is its first        *)
(* parameter, args the argument list of apply, the clause of evcon, the    *)
(* obj of add_list or the value of the first of the two calls of evlis.    *)
(* g.ret is the value the last return handed back.  The C stack has room   *)
(* for MaxDepth frames.                                                    *)
(***************************************************************************)
GdbFrame(fn, x, env, args) ==
  [fn |-> fn, pc |-> "entry", x |-> x, env |-> env, args |-> args]

\* A call: a frame more, or the end of the C stack.
GdbCall(g, f) ==
  IF Len(g.stack) >= MaxDepth THEN [g EXCEPT !.status = "overflow"]
  ELSE Push(g, f)

(***************************************************************************)
(* lisp_gdb.c: the parser, lines 361-385, one token per step.              *)
(***************************************************************************)
\* add_list(obj) up to its call get_list().
gdb_add_list(g, obj) ==
  GdbCall([g EXCEPT !.stack[Len(g.stack)].args = obj,
                    !.stack[Len(g.stack)].pc = "rest"],
          GdbFrame("get_list", 0, 0, 0))

\* get_object for a symbol: NIL is the singleton nil_obj, any other symbol
\* a new atom object.
gdb_atom_for(g, sym) ==
  IF g.symbol_table[sym + 1] = Word.NIL THEN [m |-> g, v |-> nil_obj]
  ELSE make_atom(g, sym)

gdb_get_object(g) ==
  Then(intern_string(g, g.symbol_buffer), gdb_atom_for)

\* read_expr: get_object(get_token()).
GdbReadExprStep(g) ==
  Do(gdb_get_token(g),
     LAMBDA g1, c :
       IF c = LPAREN
       THEN GdbCall(SetPc(g1, "ret"), GdbFrame("get_list", 0, 0, 0))
       ELSE Do(gdb_get_object(g1), Return))

GdbReadRetStep(g) == Return(g, g.ret)

\* get_list: the token, then nil_obj on ')' or add_list(get_object(c)).
GdbGetListStep(g) ==
  Do(gdb_get_token(g),
     LAMBDA g1, c :
       IF c = RPAREN THEN Return(g1, nil_obj)
       ELSE IF c = LPAREN
       THEN GdbCall(SetPc(g1, "obj"), GdbFrame("get_list", 0, 0, 0))
       ELSE Do(gdb_get_object(g1), gdb_add_list))

GdbAddListStep(g) == gdb_add_list(g, g.ret)

\* return cons(obj, get_list())
GdbAddListConsStep(g) == Do(gdb_cons(g, Top(g).args, g.ret), Return)

(***************************************************************************)
(* lisp_gdb.c: assoc and pairlis, lines 442-458.  C leaves the order of    *)
(* the two arguments of cons(cons(..), pairlis(..)) and of                 *)
(* cons(eval(..), evlis(..)) to the build: g.build.pairlis, g.build.evlis. *)
(***************************************************************************)
RECURSIVE gdb_assoc(_, _, _)
gdb_assoc(g, key, alist) ==
  IF TypeOf(g, alist) = "NIL" THEN [m |-> g, v |-> nil_obj]
  ELSE Then(gdb_car(g, alist), LAMBDA g1, pair :
         Then(gdb_car(g1, pair), LAMBDA g2, k :
           IF eq(g2, key, k) THEN gdb_cdr(g2, pair)
           ELSE Then(gdb_cdr(g2, alist), LAMBDA g3, rest :
                  gdb_assoc(g3, key, rest))))

\* cons(car(keys), car(values))
gdb_pair(g, keys, values) ==
  Then(gdb_car(g, keys), LAMBDA g1, k :
    Then(gdb_car(g1, values), LAMBDA g2, x : gdb_cons(g2, k, x)))

RECURSIVE gdb_pairlis(_, _, _, _)

\* pairlis(cdr(keys), cdr(values), env)
gdb_pairlis_rest(g, keys, values, env) ==
  Then(gdb_cdr(g, keys), LAMBDA g1, ks :
    Then(gdb_cdr(g1, values), LAMBDA g2, vs : gdb_pairlis(g2, ks, vs, env)))

gdb_pairlis(g, keys, values, env) ==
  IF TypeOf(g, keys) = "NIL" THEN [m |-> g, v |-> env]
  ELSE IF g.build.pairlis = "LR"
  THEN Then(gdb_pair(g, keys, values), LAMBDA g1, p :
         Then(gdb_pairlis_rest(g1, keys, values, env), LAMBDA g2, r :
           gdb_cons(g2, p, r)))
  ELSE Then(gdb_pairlis_rest(g, keys, values, env), LAMBDA g1, r :
         Then(gdb_pair(g1, keys, values), LAMBDA g2, p :
           gdb_cons(g2, p, r)))

(***************************************************************************)
(* lisp_gdb.c: eval, lines 536-562.                                        *)
(***************************************************************************)
GdbCallEval(g, x, env) == GdbCall(g, GdbFrame("eval", x, env, 0))

GdbEvalAtomStep(g) == Do(gdb_assoc(g, Top(g).x, Top(g).env), Return)

GdbEvalNilStep(g) == Return(g, nil_obj)

\* return car(cdr(expr))
GdbEvalQuoteStep(g) == Do(Then(gdb_cdr(g, Top(g).x), gdb_car), Return)

\* return evcon(cdr(expr), env)
GdbEvalCondStep(g) ==
  Do(gdb_cdr(g, Top(g).x), LAMBDA g1, clauses :
    GdbCall(SetPc(g1, "ret"), GdbFrame("evcon", clauses, Top(g).env, 0)))

\* args = evlis(cdr(expr), env)
GdbEvalArgsStep(g) ==
  Do(gdb_cdr(g, Top(g).x), LAMBDA g1, rest :
    GdbCall(SetPc(g1, "args"), GdbFrame("evlis", rest, Top(g).env, 0)))

\* return apply(fn, args, env), fn the head of expr
GdbEvalApplyStep(g) ==
  Do(gdb_car(g, Top(g).x), LAMBDA g1, head :
    GdbCall(SetPc(g1, "ret"), GdbFrame("apply", head, Top(g).env, g.ret)))

GdbEvalRetStep(g) == Return(g, g.ret)

(***************************************************************************)
(* lisp_gdb.c: evcon, lines 468-479.                                       *)
(***************************************************************************)
\* clause = car(clauses); test = eval(car(clause), env)
GdbEvconTestStep(g) ==
  Do(gdb_car(g, Top(g).x), LAMBDA g1, clause :
    Do(gdb_car(g1, clause), LAMBDA g2, t :
      GdbCallEval([g2 EXCEPT !.stack[Len(g.stack)].args = clause,
                             !.stack[Len(g.stack)].pc = "test"],
                  t, Top(g).env)))

\* return eval(car(cdr(clause)), env)
GdbEvconThenStep(g) ==
  Do(Then(gdb_cdr(g, Top(g).args), gdb_car), LAMBDA g1, e :
    GdbCallEval(SetPc(g1, "ret"), e, Top(g).env))

\* return evcon(cdr(clauses), env)
GdbEvconElseStep(g) ==
  Do(gdb_cdr(g, Top(g).x), LAMBDA g1, rest :
    GdbCall(SetPc(g1, "ret"), GdbFrame("evcon", rest, Top(g).env, 0)))

GdbEvconRetStep(g) == Return(g, g.ret)

(***************************************************************************)
(* lisp_gdb.c: evlis, lines 461-465.                                       *)
(***************************************************************************)
\* eval(car(exprs), env)
GdbEvlisCallElement(g) ==
  Do(gdb_car(g, Top(g).x), LAMBDA g1, e : GdbCallEval(g1, e, Top(g).env))

\* evlis(cdr(exprs), env)
GdbEvlisCallRest(g) ==
  Do(gdb_cdr(g, Top(g).x), LAMBDA g1, rest :
    GdbCall(g1, GdbFrame("evlis", rest, Top(g).env, 0)))

GdbEvlisNilStep(g) == Return(g, nil_obj)

\* The first of the two calls, as the build orders them.
GdbEvlisOneStep(g) ==
  IF g.build.evlis = "LR" THEN GdbEvlisCallElement(SetPc(g, "one"))
  ELSE GdbEvlisCallRest(SetPc(g, "one"))

\* The first call returned: keep its value and make the second call.
GdbEvlisTwoStep(g) ==
  IF g.build.evlis = "LR"
  THEN GdbEvlisCallRest([g EXCEPT !.stack[Len(g.stack)].args = g.ret,
                                  !.stack[Len(g.stack)].pc = "two"])
  ELSE GdbEvlisCallElement([g EXCEPT !.stack[Len(g.stack)].args = g.ret,
                                     !.stack[Len(g.stack)].pc = "two"])

\* return cons(eval(..), evlis(..))
GdbEvlisConsStep(g) ==
  Do(IF g.build.evlis = "LR" THEN gdb_cons(g, Top(g).args, g.ret)
     ELSE gdb_cons(g, g.ret, Top(g).args),
     Return)

(***************************************************************************)
(* lisp_gdb.c: apply, lines 482-533.                                       *)
(***************************************************************************)
\* The record of a primitive run by apply: its name and the object in fn.
GdbPrim(g, name) == [g EXCEPT !.prim = [name |-> name, fn |-> Top(g).x]]

\* fprintf(stderr, "Cannot apply NIL\n"); return nil_obj;
GdbApplyNilStep(g) ==
  Return([g EXCEPT !.err = Append(@, "Cannot apply NIL")], nil_obj)

\* params = car(cdr(fn)); body = car(cdr(cdr(fn)));
\* new_env = pairlis(params, args, env); return eval(body, new_env)
GdbApplyLambdaStep(g) ==
  Do(gdb_cdr(g, Top(g).x), LAMBDA g1, tl :
    Do(gdb_car(g1, tl), LAMBDA g2, params :
      Do(Then(gdb_cdr(g2, tl), gdb_car), LAMBDA g3, body :
        Do(gdb_pairlis(g3, params, Top(g).args, Top(g).env),
           LAMBDA g4, new_env :
             GdbCallEval(SetPc(GdbPrim(g4, "LAMBDA"), "ret"),
                         body, new_env)))))

\* return eq(car(args), car(cdr(args))) ? t_obj : nil_obj
GdbApplyEqStep(g) ==
  Do(gdb_car(g, Top(g).args), LAMBDA g1, a :
    Do(Then(gdb_cdr(g1, Top(g).args), gdb_car), LAMBDA g2, b :
      Return(GdbPrim(g2, "EQ"), IF eq(g2, a, b) THEN t_obj ELSE nil_obj)))

\* return cons(car(args), car(cdr(args)))
GdbApplyConsStep(g) ==
  Do(gdb_car(g, Top(g).args), LAMBDA g1, a :
    Do(Then(gdb_cdr(g1, Top(g).args), gdb_car), LAMBDA g2, b :
      Do(gdb_cons(GdbPrim(g2, "CONS"), a, b), Return)))

\* return is_atom(car(args)) ? t_obj : nil_obj
GdbApplyAtomStep(g) ==
  Do(gdb_car(g, Top(g).args), LAMBDA g1, a :
    Return(GdbPrim(g1, "ATOM"), IF is_atom(g1, a) THEN t_obj ELSE nil_obj))

\* return car(car(args))
GdbApplyCarStep(g) ==
  Do(Then(gdb_car(GdbPrim(g, "CAR"), Top(g).args), gdb_car), Return)

\* return cdr(car(args))
GdbApplyCdrStep(g) ==
  Do(Then(gdb_car(GdbPrim(g, "CDR"), Top(g).args), gdb_cdr), Return)

\* return read_expr()
GdbApplyReadStep(g) ==
  GdbCall(SetPc(GdbPrim(g, "READ"), "ret"), GdbFrame("read", 0, 0, 0))

\* print_object(car(args)) or print_char('\n'); return nil_obj
GdbApplyPrintStep(g) ==
  IF TypeOf(g, Top(g).args) # "NIL"
  THEN Do(gdb_car(GdbPrim(g, "PRINT"), Top(g).args), LAMBDA g1, a :
         Return(gdb_print_object(g1, a), nil_obj))
  ELSE Return(gdb_print_char(GdbPrim(g, "PRINT"), NEWLINE), nil_obj)

\* apply(eval(fn, env), args, env): the call eval(fn, env)
GdbApplyLookupStep(g) ==
  GdbCallEval(SetPc(g, "fn"), Top(g).x, Top(g).env)

\* apply(eval(fn, env), args, env): the call apply
GdbApplyRetryStep(g) ==
  GdbCall(SetPc(g, "ret"),
          GdbFrame("apply", g.ret, Top(g).env, Top(g).args))

GdbApplyRetStep(g) == Return(g, g.ret)

(***************************************************************************)
(* lisp_gdb.c: init_builtins, lines 570-606, and the REPL, 616-622.        *)
(***************************************************************************)
\* The symbol table and the heap after init_builtins, which reads on
\* behind BUILTIN_SYMBOLS: junk is the number of strings it finds there.
GdbInitTable(junk) ==
  [n \in 1 .. Len(BuiltinNames) + (IF junk > 0 THEN 1 ELSE 0) |->
     IF n <= Len(BuiltinNames) THEN Word[BuiltinNames[n]] ELSE JunkName]

GdbInitHeap(junk) ==
  [n \in 1 .. Len(BuiltinNames) + junk |->
     IF n = 1 THEN NilObject
     ELSE IF n <= Len(BuiltinNames) THEN AtomObject(n - 1)
     ELSE AtomObject(Len(BuiltinNames))]

\* expr = read_expr()
GdbMainReadStep(g) ==
  GdbCall(SetPc(g, "eval"), GdbFrame("read", 0, 0, 0))

\* result = eval(expr, nil_obj)
GdbMainEvalStep(g) == GdbCallEval(SetPc(g, "print"), g.ret, nil_obj)

\* print_object(result); print_char('\n')
GdbMainPrintStep(g) ==
  [SetPc(gdb_print_char(gdb_print_object(g, g.ret), NEWLINE), "read")
     EXCEPT !.hist = Append(@, [printed |-> GdbPrinted(g, g.ret),
                                result |-> g.ret])]

(***************************************************************************)
(* lisp_gdb.c: which step the machine takes next.                          *)
(***************************************************************************)
\* Whether fn is a cons whose car is the atom LAMBDA.
gdb_is_lambda(g, fn) ==
  /\ TypeOf(g, fn) = "CONS"
  /\ TypeOf(g, gdb_car(g, fn).v) = "ATOM"
  /\ SymbolOf(g, gdb_car(g, fn).v) = Word["LAMBDA"]

\* The test taking every cons for a lambda.
gdb_is_cons(g, fn) == TypeOf(g, fn) = "CONS"

GdbApplyKind(g, fn) ==
  IF TypeOf(g, fn) = "NIL" THEN "ApplyNil"
  ELSE IF gdb_is_lambda(g, fn) THEN "ApplyLambda"
  ELSE IF TypeOf(g, fn) # "ATOM" THEN "ApplyLookup"
  ELSE IF eq(g, fn, eq_obj) THEN "ApplyEq"
  ELSE IF eq(g, fn, cons_obj) THEN "ApplyCons"
  ELSE IF eq(g, fn, atom_obj) THEN "ApplyAtom"
  ELSE IF eq(g, fn, car_obj) THEN "ApplyCar"
  ELSE IF eq(g, fn, cdr_obj) THEN "ApplyCdr"
  ELSE IF eq(g, fn, read_obj) THEN "ApplyRead"
  ELSE IF eq(g, fn, print_obj) THEN "ApplyPrint"
  ELSE "ApplyLookup"

GdbEvalKind(g, expr) ==
  IF TypeOf(g, expr) = "ATOM" THEN "EvalAtom"
  ELSE IF TypeOf(g, expr) = "NIL" THEN "EvalNil"
  ELSE IF eq(g, gdb_car(g, expr).v, quote_obj) THEN "EvalQuote"
  ELSE IF eq(g, gdb_car(g, expr).v, cond_obj) THEN "EvalCond"
  ELSE "EvalArgs"

GdbKind(g) ==
  LET f == Top(g)
  IN  IF Halted(g) THEN "Halted"
      ELSE IF f.fn = "main"
      THEN (IF f.pc = "read" THEN "MainRead"
            ELSE IF f.pc = "eval" THEN "MainEval" ELSE "MainPrint")
      ELSE IF f.fn = "read"
      THEN (IF f.pc = "entry" THEN "ReadExpr" ELSE "ReadRet")
      ELSE IF f.fn = "get_list"
      THEN (IF f.pc = "entry" THEN "GetList"
            ELSE IF f.pc = "obj" THEN "AddList" ELSE "AddListCons")
      ELSE IF f.fn = "eval"
      THEN (IF f.pc = "entry" THEN GdbEvalKind(g, f.x)
            ELSE IF f.pc = "args" THEN "EvalApply" ELSE "EvalRet")
      ELSE IF f.fn = "evcon"
      THEN (IF f.pc = "entry" THEN "EvconTest"
            ELSE IF f.pc = "ret" THEN "EvconRet"
            ELSE IF TypeOf(g, g.ret) # "NIL" THEN "EvconThen"
            ELSE "EvconElse")
      ELSE IF f.fn = "evlis"
      THEN (IF f.pc = "entry"
            THEN (IF TypeOf(g, f.x) = "NIL" THEN "EvlisNil" ELSE "EvlisOne")
            ELSE IF f.pc = "one" THEN "EvlisTwo" ELSE "EvlisCons")
      ELSE (IF f.pc = "entry" THEN GdbApplyKind(g, f.x)
            ELSE IF f.pc = "fn" THEN "ApplyRetry" ELSE "ApplyRet")

\* The machine as a step starts: the record of the last step is cleared.
GdbFresh(g) == [g EXCEPT !.prim = NoPrim]

(***************************************************************************)
(* The character source: the lines bestlineWithHistory hands out, then     *)
(* end of input.  A line is written as its tokens; Text spells them with   *)
(* single spaces.                                                          *)
(***************************************************************************)
RECURSIVE Text(_)
Text(toks) ==
  IF toks = <<>> THEN <<>>
  ELSE IF Len(toks) = 1 THEN Word[toks[1]]
  ELSE Word[toks[1]]
       \o (IF toks[1] = "(" \/ toks[2] = ")" THEN <<>> ELSE <<SPACE>>)
       \o Text(Tail(toks))

QuoteA ==
  <<Text(<<"(", "QUOTE", "A", ")">>),
     <<>>>>

CarABC ==
  <<Text(<<"(", "CAR", "(", "QUOTE", "(", "A", "B", "C", ")", ")", ")">>),
     <<>>>>

ConsABC ==
  <<Text(<<"(", "CONS", "(", "QUOTE", "A", ")", "(", "QUOTE", "(", "B",
          "C", ")", ")", ")">>),
     <<>>>>

EqAtoms ==
  <<Text(<<"(", "EQ", "(", "QUOTE", "A", ")", "(", "QUOTE", "A", ")", ")">>),
     Text(<<"(", "EQ", "(", "QUOTE", "A", ")", "(", "QUOTE", "B", ")", ")">>),
     Text(<<"(", "ATOM", "(", "QUOTE", "(", "A", ")", ")", ")">>),
     <<>>>>

SameResult ==
  <<Text(<<"(", "CDR", "(", "QUOTE", "(", "A", "B", ")", ")", ")">>),
     Text(<<"(", "CONS", "(", "QUOTE", "B", ")", "(", "QUOTE", "NIL", ")",
          ")">>),
     <<>>>>

CondProg ==
  <<Text(<<"(", "COND", "(", "(", "EQ", "(", "QUOTE", "A", ")", "(",
          "QUOTE", "B", ")", ")", "(", "QUOTE", "A", ")", ")", "(", "(",
          "QUOTE", "T", ")", "(", "CONS", "(", "QUOTE", "A", ")", "(",
          "QUOTE", "B", ")", ")", ")", ")">>),
     <<>>>>

DottedPair ==
  <<Text(<<"(", "(", "LAMBDA", "(", "X", ")", "(", "CONS", "X", "X", ")",
          ")", "(", "QUOTE", "A", ")", ")">>),
     <<>>>>

SharedPair ==
  <<Text(<<"(", "(", "LAMBDA", "(", "P", ")", "(", "EQ", "(", "CAR", "P",
          ")", "(", "CDR", "P", ")", ")", ")", "(", "(", "LAMBDA", "(", "X",
          ")", "(", "CONS", "X", "X", ")", ")", "(", "CONS", "(", "QUOTE",
          "A", ")", "(", "QUOTE", "B", ")", ")", ")", ")">>),
     <<>>>>

PrintAB ==
  <<Text(<<"(", "CONS", "(", "PRINT", "(", "QUOTE", "A", ")", ")", "(",
          "PRINT", "(", "QUOTE", "B", ")", ")", ")">>),
     <<>>>>

ReadTwo ==
  <<Text(<<"(", "CONS", "(", "READ", ")", "(", "READ", ")", ")">>),
     Text(<<"CARS", "CA">>),
     Text(<<"(", "CAR", "(", "QUOTE", "(", "CA", "CARS", ")", ")", ")">>),
     <<>>>>

ReadList ==
  <<Text(<<"(", "CDR", "(", "READ", ")", ")">>),
     Text(<<"(", "A", "(", "B", ")", "C", ")">>),
     Text(<<"(", "PRINT", ")">>),
     <<>>>>

StrayParen ==
  <<Text(<<")">>),
     Text(<<"(", "NIL", ")">>),
     <<>>>>

ByName ==
  <<Text(<<"(", "(", "LAMBDA", "(", "F", ")", "(", "F", "(", "QUOTE", "(",
          "A", "B", ")", ")", ")", ")", "(", "QUOTE", "CDR", ")", ")">>),
     <<>>>>

Diverge ==
  <<Text(<<"(", "(", "LAMBDA", "(", "F", ")", "(", "F", "F", ")", ")", "(",
          "QUOTE", "(", "LAMBDA", "(", "F", ")", "(", "F", "F", ")", ")",
          ")", ")">>),
     <<>>>>

\* flatten.lisp, line by line, with X the list in the tokens xs.
FlattenOf(xs) ==
  <<Text(<<"(", "(", "LAMBDA", "(", "FLATTEN", "X", ")", "(", "FLATTEN", "X",
          ")", ")">>),
    Text(<<"(", "QUOTE", "(", "LAMBDA", "(", "X", ")">>),
    Text(<<"(", "COND", "(", "(", "EQ", "X", "(", ")", ")", "(", ")", ")">>),
    Text(<<"(", "(", "ATOM", "(", "CAR", "X", ")", ")">>),
    Text(<<"(", "CONS", "(", "CAR", "X", ")", "(", "FLATTEN", "(", "CDR",
          "X", ")", ")", ")", ")">>),
    Text(<<"(", "(", "QUOTE", "T", ")">>),
    Text(<<"(", "CONS", "(", "CAR", "(", "CAR", "X", ")", ")", "(",
          "FLATTEN", "(", "CDR", "X", ")", ")", ")", ")", ")", ")", ")">>),
    Text(<<"(", "QUOTE">> \o xs \o <<")", ")">>),
    <<>>>>

Flatten == FlattenOf(<<"(", "(", "A", ")", "B", "C", ")">>)

FlattenTwo == FlattenOf(<<"(", "(", "A", "B", ")", "C", ")">>)

\* The firstatom program with L the list in the tokens xs.
FirstAtomOf(xs) ==
  <<Text(<<"(", "(", "LAMBDA", "(", "FF", "X", ")", "(", "FF", "X", ")", ")",
          "(", "QUOTE", "(", "LAMBDA", "(", "X", ")", "(", "COND", "(", "(",
          "ATOM", "X", ")", "X", ")", "(", "(", "QUOTE", "T", ")", "(", "FF",
          "(", "CAR", "X", ")", ")", ")", ")", ")", ")", "(", "QUOTE">>
         \o xs \o <<")", ")">>),
    <<>>>>

FirstAtom == FirstAtomOf(<<"(", "(", "A", ")", "B", "C", ")">>)

\* The tokens spelled with two spaces in front of each and one at the end.
RECURSIVE Loose(_)
Loose(toks) ==
  IF toks = <<>> THEN <<SPACE>>
  ELSE <<SPACE, SPACE>> \o Word[toks[1]] \o Loose(Tail(toks))

\* (READ) at top level, answered by the expression in the tokens xs.
ReadBackOf(xs) ==
  <<Text(<<"(", "READ", ")">>),
    Loose(xs),
    <<>>>>

ReadBackNested == ReadBackOf(<<"(", "A", "(", "B", "C", ")", "(", "CA", ")", ")">>)

ReadBackEmpty == ReadBackOf(<<"(", "A", "(", ")", "B", ")">>)

ReadBackAtom == ReadBackOf(<<"CARS">>)

ReadBackUnit == ReadBackOf(<<"(", ")">>)

\* NIL as a name, as the empty list and as falsehood.
NilRoles ==
  <<Text(<<"(", "EQ", "(", "QUOTE", "NIL", ")", "(", "QUOTE", "(", ")", ")",
          ")">>),
    Text(<<"(", "ATOM", "(", ")", ")">>),
    Text(<<"(", "COND", "(", "(", ")", "(", "QUOTE", "A", ")", ")", "(", "(",
          "QUOTE", "F", ")", "(", "QUOTE", "B", ")", ")", ")">>),
    <<>>>>

\* A function whose head is the atom F instead of LAMBDA.
AnyHead ==
  <<Text(<<"(", "(", "F", "(", "X", ")", "X", ")", "(", "QUOTE", "A", ")",
          ")">>),
    <<>>>>

\* Sessions whose last line is not empty: the end of input follows the
\* closing parenthesis, an open list, or the line that calls READ.
EndAfterOne ==
  <<Text(<<"(", "QUOTE", "A", ")">>)>>

EndAfterTwo ==
  <<Text(<<"(", "QUOTE", "A", ")">>),
    Text(<<"(", "QUOTE", "B", ")">>)>>

EndInList ==
  <<Text(<<"(", "QUOTE", "A", ")">>),
    <<>>,
    Text(<<"(", "QUOTE", "(", "A">>)>>

EndInRead ==
  <<Text(<<"(", "QUOTE", "A", ")">>),
    Text(<<"(", "CONS", "(", "READ", ")", "(", "QUOTE", "B", ")", ")">>),
    <<>>>>

FirstAtomDeep == FirstAtomOf(<<"(", "(", "(", "B", ")", "A", ")", "C", ")">>)

\* A repeated parameter, and a parameter shadowing the caller's binding.
Shadow ==
  <<Text(<<"(", "(", "LAMBDA", "(", "X", "X", ")", "X", ")", "(", "QUOTE",
          "A", ")", "(", "QUOTE", "B", ")", ")">>),
    Text(<<"(", "(", "LAMBDA", "(", "X", ")", "(", "(", "LAMBDA", "(", "X",
          "Y", ")", "(", "CONS", "X", "(", "CONS", "Y", "F", ")", ")", ")",
          "(", "QUOTE", "B", ")", "X", ")", ")", "(", "QUOTE", "A", ")",
          ")">>),
    <<>>>>

\* An expression broken between two atoms, at the end of a line.
SplitLine ==
  <<Text(<<"(", "QUOTE">>),
    Text(<<"A", ")">>),
    <<>>>>

\* A name with an exclamation mark, code 33, inside it.
Bang ==
  <<Text(<<"(", "QUOTE", "A!B", ")">>),
    <<>>>>

\* A conditional whose tests and bodies print, and whose last test reads.
CondOrder ==
  <<Text(<<"(", "COND",
           "(", "(", "PRINT", "(", "QUOTE", "A", ")", ")",
                "(", "PRINT", "(", "QUOTE", "X", ")", ")", ")",
           "(", "(", "ATOM", "(", "PRINT", "(", "QUOTE", "B", ")", ")", ")",
                "(", "ATOM", "(", "PRINT", "(", "QUOTE", "C", ")", ")", ")",
           ")",
           "(", "(", "READ", ")",
                "(", "PRINT", "(", "QUOTE", "P", ")", ")", ")", ")">>),
    Text(<<"(", "QUOTE", "Y", ")">>),
    <<>>>>

\* NIL in function position, and a name there that is bound to nothing.
ApplyNil ==
  <<Text(<<"(", "NIL", "(", "QUOTE", "A", ")", ")">>),
    Text(<<"(", "F", "(", "QUOTE", "A", ")", ")">>),
    <<>>>>

\* A result in which a new two-cell list occurs four times: its copy is
\* larger than the space the evaluation used.
Quadruple ==
  <<Text(<<"(", "(", "LAMBDA", "(", "X", ")",
           "(", "CONS", "(", "CONS", "X", "X", ")",
                        "(", "CONS", "X", "X", ")", ")", ")",
           "(", "CONS", "(", "QUOTE", "A", ")",
                "(", "CONS", "(", "QUOTE", "B", ")", "(", "QUOTE", "C", ")",
                ")", ")", ")">>),
    <<>>>>

\* Five long lines: more objects than the heap of lisp_gdb.c holds.
LongLine ==
  Text(<<"(", "QUOTE", "(", "A", "B", "C", "X", "Y", "F", "P",
         "A", "B", "C", "X", "Y", "F", "P", ")", ")">>)

Exhaust == <<LongLine, LongLine, LongLine, LongLine, LongLine, LongLine, <<>>>>

Sessions ==
  <<QuoteA, CarABC, ConsABC, EqAtoms, SameResult, CondProg, DottedPair,
    SharedPair, PrintAB, ReadTwo, ReadList, StrayParen, ByName, Diverge,
    Flatten, FlattenTwo, FirstAtom, ReadBackNested, ReadBackEmpty,
    ReadBackAtom, ReadBackUnit, NilRoles, AnyHead, EndAfterOne, EndAfterTwo,
    EndInList, EndInRead, FirstAtomDeep, Shadow, SplitLine, Bang, CondOrder,
    ApplyNil, Quadruple, Exhaust>>

Builds == [gc : {"LR", "RL"}, pairlis : {"LR", "RL"}]

GdbBuilds == [evlis : {"LR", "RL"}, pairlis : {"LR", "RL"}]

(***************************************************************************)
(* The state.  The first twelve variables are the program's; the others    *)
(* record what the last step did, for the properties.                      *)
(***************************************************************************)
VARIABLES
  mem,             \* memory[], indexed as symbol_table[]
  heap_ptr,
  lookahead_char,
  input_line,
  input_pos,
  source,          \* the lines the character source has not handed out yet
  out,             \* the characters written by print_char
  status,          \* "running", "exited" (exit(0)), "ub" (a write outside memory[])
  stack,           \* the C call stack
  ret,             \* the value of the last return
  build,           \* the build's argument evaluation orders
  session,         \* which session the character source plays
  wr,              \* the writes of the last step: [k: which code, i: index]
  ilog,            \* the intern calls so far: <<token, handle>>
  consumed,        \* how many characters get_char has read
  evlog,           \* the evlis element evaluations: start and end events
  nchain,          \* the number of argument lists evaluated so far
  lastret,         \* what the last step returned, when it returned from eval
  prim,            \* the primitive the last step ran and its handle
  ref,             \* the machine of the run without the collection step
  eqcons,          \* whether this top-level evaluation applied EQ to a cons
  hist,            \* the top-level results so far: printed form, cursor distance
  impl,            \* which implementation runs: "tagged" or "gdb"
  g                \* the machine of lisp_gdb.c

vars ==
  <<mem, heap_ptr, lookahead_char, input_line, input_pos, source, out, status,
    stack, ret, build, session, wr, ilog, consumed, evlog, nchain, lastret,
    prim, ref, eqcons, hist, impl, g>>

\* The machine record of the current state.
M ==
  [mem |-> mem, heap_ptr |-> heap_ptr, lookahead_char |-> lookahead_char,
   input_line |-> input_line, input_pos |-> input_pos, source |-> source,
   out |-> out, status |-> status, stack |-> stack, ret |-> ret,
   build |-> build, collecting |-> TRUE, wr |-> wr, ilog |-> ilog,
   consumed |-> consumed, evlog |-> evlog, nchain |-> nchain,
   lastret |-> lastret, prim |-> prim]

Commit(m) ==
  /\ mem' = m.mem
  /\ heap_ptr' = m.heap_ptr
  /\ lookahead_char' = m.lookahead_char
  /\ input_line' = m.input_line
  /\ input_pos' = m.input_pos
  /\ source' = m.source
  /\ out' = m.out
  /\ status' = m.status
  /\ stack' = m.stack
  /\ ret' = m.ret
  /\ build' = m.build
  /\ wr' = m.wr
  /\ ilog' = m.ilog
  /\ consumed' = m.consumed
  /\ evlog' = m.evlog
  /\ nchain' = m.nchain
  /\ lastret' = m.lastret
  /\ prim' = m.prim
  /\ session' = session
  /\ impl' = impl
  /\ g' = g

\* main, lines 495-498: the built-in symbols are copied into the zeroed arena.
InitMem ==
  [i \in Arena |->
     IF i >= 0 /\ i < Len(BUILTIN_SYMBOLS) THEN BUILTIN_SYMBOLS[i + 1] ELSE 0]

\* lisp_gdb.c before main: the globals as initialised, the character
\* source at its first line; init_builtins has run.
GdbInit(src, b, junk) ==
  [heap |-> GdbInitHeap(junk), symbol_table |-> GdbInitTable(junk),
   symbol_buffer |-> <<>>, lookahead_char |-> 0, line |-> <<>>, ptr |-> 1,
   source |-> src, out |-> <<>>, err |-> <<>>, status |-> "running",
   build |-> b,
   stack |-> <<[GdbFrame("main", 0, 0, 0) EXCEPT !.pc = "read"]>>,
   ret |-> nil_obj, consumed |-> 0, prim |-> NoPrim, hist |-> <<>>]

Init ==
  /\ session \in 1 .. Len(Sessions)
  /\ impl \in {"tagged", "gdb"}
  /\ build \in (IF impl = "tagged" THEN Builds
                ELSE {[gc |-> "LR", pairlis |-> "LR"]})
  /\ g \in (IF impl = "gdb"
            THEN {GdbInit(Sessions[session], b, junk) :
                    b \in GdbBuilds, junk \in 0 .. MaxJunk}
            ELSE {GdbInit(Sessions[session],
                          [evlis |-> "LR", pairlis |-> "LR"], 0)})
  /\ mem = InitMem
  /\ heap_ptr = 0
  /\ lookahead_char = 0
  /\ input_line = <<>>
  /\ input_pos = 1
  /\ source = Sessions[session]
  /\ out = <<>>
  /\ status = "running"
  /\ stack = <<[Frame("main", 0, 0, 0) EXCEPT !.pc = "read"]>>
  /\ ret = 0
  /\ wr = {}
  /\ ilog = {}
  /\ consumed = 0
  /\ evlog = <<>>
  /\ nchain = 0
  /\ lastret = NoRet
  /\ prim = NoPrim
  /\ ref = [M EXCEPT !.collecting = FALSE]
  /\ eqcons = FALSE
  /\ hist = <<>>

(***************************************************************************)
(* The reference run: ref is the same machine with lines 468-477 of eval   *)
(* skipped.  It starts at the entry of each top-level eval from the state  *)
(* of the machine there and takes one step with every step of the machine, *)
(* until its eval returns to main.                                         *)
(***************************************************************************)
AtMainPrint(m) == Len(m.stack) = 1 /\ Top(m).pc = "print"

RefStep == IF Halted(ref) \/ AtMainPrint(ref) THEN ref ELSE Step(ref)

(***************************************************************************)
(* The actions: one per step of the code.                                  *)
(***************************************************************************)
\* Whether the EQ primitive is about to compare a cons cell.
EqOnCons ==
  LET args == Top(M).args
  IN  IS_CONS(car(M, args)) \/ IS_CONS(car(M, cdr(M, args)))

\* The reference run starts from the state in which eval is entered.
StartRef(m) == [m EXCEPT !.collecting = FALSE]

MainRead ==
  /\ impl = "tagged"
  /\ Kind(M) = "MainRead"
  /\ Commit(MainReadStep(Fresh(M)))
  /\ ref' = RefStep
  /\ eqcons' = eqcons
  /\ hist' = hist

MainEval ==
  /\ impl = "tagged"
  /\ Kind(M) = "MainEval"
  /\ Commit(MainEvalStep(Fresh(M)))
  /\ ref' = StartRef(MainEvalStep(Fresh(M)))
  /\ eqcons' = FALSE
  /\ hist' = hist

ReadExpression ==
  /\ impl = "tagged"
  /\ Kind(M) = "ReadExpression"
  /\ Commit(ReadExpressionStep(Fresh(M)))
  /\ ref' = RefStep
  /\ eqcons' = eqcons
  /\ hist' = hist

ReadRet ==
  /\ impl = "tagged"
  /\ Kind(M) = "ReadRet"
  /\ Commit(ReadRetStep(Fresh(M)))
  /\ ref' = RefStep
  /\ eqcons' = eqcons
  /\ hist' = hist

GetList ==
  /\ impl = "tagged"
  /\ Kind(M) = "GetList"
  /\ Commit(GetListStep(Fresh(M)))
  /\ ref' = RefStep
  /\ eqcons' = eqcons
  /\ hist' = hist

AddList ==
  /\ impl = "tagged"
  /\ Kind(M) = "AddList"
  /\ Commit(AddListStep(Fresh(M)))
  /\ ref' = RefStep
  /\ eqcons' = eqcons
  /\ hist' = hist

AddListCons ==
  /\ impl = "tagged"
  /\ Kind(M) = "AddListCons"
  /\ Commit(AddListConsStep(Fresh(M)))
  /\ ref' = RefStep
  /\ eqcons' = eqcons
  /\ hist' = hist

MainPrint ==
  /\ impl = "tagged"
  /\ Kind(M) = "MainPrint"
  /\ Commit(MainPrintStep(Fresh(M)))
  /\ ref' = ref
  /\ eqcons' = eqcons
  /\ hist' = Append(hist, [printed |-> Printed(M, ret),
                           dist |-> lastret.A - heap_ptr,
                           result |-> ret,
                           A |-> lastret.A])

EvalAtom ==
  /\ impl = "tagged"
  /\ Kind(M) = "EvalAtom"
  /\ Commit(EvalAtomStep(Fresh(M)))
  /\ ref' = RefStep
  /\ eqcons' = eqcons
  /\ hist' = hist

EvalQuote ==
  /\ impl = "tagged"
  /\ Kind(M) = "EvalQuote"
  /\ Commit(EvalQuoteStep(Fresh(M)))
  /\ ref' = RefStep
  /\ eqcons' = eqcons
  /\ hist' = hist

EvalCond ==
  /\ impl = "tagged"
  /\ Kind(M) = "EvalCond"
  /\ Commit(EvalCondStep(Fresh(M)))
  /\ ref' = RefStep
  /\ eqcons' = eqcons
  /\ hist' = hist

EvalArgs ==
  /\ impl = "tagged"
  /\ Kind(M) = "EvalArgs"
  /\ Commit(EvalArgsStep(Fresh(M)))
  /\ ref' = RefStep
  /\ eqcons' = eqcons
  /\ hist' = hist

EvalApply ==
  /\ impl = "tagged"
  /\ Kind(M) = "EvalApply"
  /\ Commit(EvalApplyStep(Fresh(M)))
  /\ ref' = RefStep
  /\ eqcons' = eqcons
  /\ hist' = hist

EvalGc ==
  /\ impl = "tagged"
  /\ Kind(M) = "EvalGc"
  /\ Commit(EvalGcStep(Fresh(M)))
  /\ ref' = RefStep
  /\ eqcons' = eqcons
  /\ hist' = hist

EvconTest ==
  /\ impl = "tagged"
  /\ Kind(M) = "EvconTest"
  /\ Commit(EvconTestStep(Fresh(M)))
  /\ ref' = RefStep
  /\ eqcons' = eqcons
  /\ hist' = hist

EvconThen ==
  /\ impl = "tagged"
  /\ Kind(M) = "EvconThen"
  /\ Commit(EvconThenStep(Fresh(M)))
  /\ ref' = RefStep
  /\ eqcons' = eqcons
  /\ hist' = hist

EvconElse ==
  /\ impl = "tagged"
  /\ Kind(M) = "EvconElse"
  /\ Commit(EvconElseStep(Fresh(M)))
  /\ ref' = RefStep
  /\ eqcons' = eqcons
  /\ hist' = hist

EvconRet ==
  /\ impl = "tagged"
  /\ Kind(M) = "EvconRet"
  /\ Commit(EvconRetStep(Fresh(M)))
  /\ ref' = RefStep
  /\ eqcons' = eqcons
  /\ hist' = hist

EvlisNil ==
  /\ impl = "tagged"
  /\ Kind(M) = "EvlisNil"
  /\ Commit(EvlisNilStep(Fresh(M)))
  /\ ref' = RefStep
  /\ eqcons' = eqcons
  /\ hist' = hist

EvlisOne ==
  /\ impl = "tagged"
  /\ Kind(M) = "EvlisOne"
  /\ Commit(EvlisOneStep(Fresh(M)))
  /\ ref' = RefStep
  /\ eqcons' = eqcons
  /\ hist' = hist

EvlisTwo ==
  /\ impl = "tagged"
  /\ Kind(M) = "EvlisTwo"
  /\ Commit(EvlisTwoStep(Fresh(M)))
  /\ ref' = RefStep
  /\ eqcons' = eqcons
  /\ hist' = hist

EvlisCons ==
  /\ impl = "tagged"
  /\ Kind(M) = "EvlisCons"
  /\ Commit(EvlisConsStep(Fresh(M)))
  /\ ref' = RefStep
  /\ eqcons' = eqcons
  /\ hist' = hist

ApplyLambda ==
  /\ impl = "tagged"
  /\ Kind(M) = "ApplyLambda"
  /\ Commit(ApplyLambdaStep(Fresh(M)))
  /\ ref' = RefStep
  /\ eqcons' = eqcons
  /\ hist' = hist

ApplyLookup ==
  /\ impl = "tagged"
  /\ Kind(M) = "ApplyLookup"
  /\ Commit(ApplyLookupStep(Fresh(M)))
  /\ ref' = RefStep
  /\ eqcons' = eqcons
  /\ hist' = hist

ApplyRetry ==
  /\ impl = "tagged"
  /\ Kind(M) = "ApplyRetry"
  /\ Commit(ApplyRetryStep(Fresh(M)))
  /\ ref' = RefStep
  /\ eqcons' = eqcons
  /\ hist' = hist

ApplyRet ==
  /\ impl = "tagged"
  /\ Kind(M) = "ApplyRet"
  /\ Commit(ApplyRetStep(Fresh(M)))
  /\ ref' = RefStep
  /\ eqcons' = eqcons
  /\ hist' = hist

ApplyEq ==
  /\ impl = "tagged"
  /\ Kind(M) = "ApplyEq"
  /\ Commit(ApplyEqStep(Fresh(M)))
  /\ ref' = RefStep
  /\ eqcons' = (eqcons \/ EqOnCons)
  /\ hist' = hist

ApplyCons ==
  /\ impl = "tagged"
  /\ Kind(M) = "ApplyCons"
  /\ Commit(ApplyConsStep(Fresh(M)))
  /\ ref' = RefStep
  /\ eqcons' = eqcons
  /\ hist' = hist

ApplyAtom ==
  /\ impl = "tagged"
  /\ Kind(M) = "ApplyAtom"
  /\ Commit(ApplyAtomStep(Fresh(M)))
  /\ ref' = RefStep
  /\ eqcons' = eqcons
  /\ hist' = hist

ApplyCar ==
  /\ impl = "tagged"
  /\ Kind(M) = "ApplyCar"
  /\ Commit(ApplyCarStep(Fresh(M)))
  /\ ref' = RefStep
  /\ eqcons' = eqcons
  /\ hist' = hist

ApplyCdr ==
  /\ impl = "tagged"
  /\ Kind(M) = "ApplyCdr"
  /\ Commit(ApplyCdrStep(Fresh(M)))
  /\ ref' = RefStep
  /\ eqcons' = eqcons
  /\ hist' = hist

ApplyRead ==
  /\ impl = "tagged"
  /\ Kind(M) = "ApplyRead"
  /\ Commit(ApplyReadStep(Fresh(M)))
  /\ ref' = RefStep
  /\ eqcons' = eqcons
  /\ hist' = hist

ApplyPrint ==
  /\ impl = "tagged"
  /\ Kind(M) = "ApplyPrint"
  /\ Commit(ApplyPrintStep(Fresh(M)))
  /\ ref' = RefStep
  /\ eqcons' = eqcons
  /\ hist' = hist

ApplyNone ==
  /\ impl = "tagged"
  /\ Kind(M) = "ApplyNone"
  /\ Commit(ApplyNoneStep(Fresh(M)))
  /\ ref' = RefStep
  /\ eqcons' = eqcons
  /\ hist' = hist

\* The variables of the sign-tagged machine and its records.
tagged_vars ==
  <<mem, heap_ptr, lookahead_char, input_line, input_pos, source, out, status,
    stack, ret, build, session, wr, ilog, consumed, evlog, nchain, lastret,
    prim, ref, eqcons, hist, impl>>

\* The steps of lisp_gdb.c.
GdbMainRead ==
  /\ impl = "gdb"
  /\ GdbKind(g) = "MainRead"
  /\ g' = GdbMainReadStep(GdbFresh(g))
  /\ UNCHANGED tagged_vars

GdbMainEval ==
  /\ impl = "gdb"
  /\ GdbKind(g) = "MainEval"
  /\ g' = GdbMainEvalStep(GdbFresh(g))
  /\ UNCHANGED tagged_vars

GdbMainPrint ==
  /\ impl = "gdb"
  /\ GdbKind(g) = "MainPrint"
  /\ g' = GdbMainPrintStep(GdbFresh(g))
  /\ UNCHANGED tagged_vars

GdbReadExpr ==
  /\ impl = "gdb"
  /\ GdbKind(g) = "ReadExpr"
  /\ g' = GdbReadExprStep(GdbFresh(g))
  /\ UNCHANGED tagged_vars

GdbReadRet ==
  /\ impl = "gdb"
  /\ GdbKind(g) = "ReadRet"
  /\ g' = GdbReadRetStep(GdbFresh(g))
  /\ UNCHANGED tagged_vars

GdbGetList ==
  /\ impl = "gdb"
  /\ GdbKind(g) = "GetList"
  /\ g' = GdbGetListStep(GdbFresh(g))
  /\ UNCHANGED tagged_vars

GdbAddList ==
  /\ impl = "gdb"
  /\ GdbKind(g) = "AddList"
  /\ g' = GdbAddListStep(GdbFresh(g))
  /\ UNCHANGED tagged_vars

GdbAddListCons ==
  /\ impl = "gdb"
  /\ GdbKind(g) = "AddListCons"
  /\ g' = GdbAddListConsStep(GdbFresh(g))
  /\ UNCHANGED tagged_vars

GdbEvalAtom ==
  /\ impl = "gdb"
  /\ GdbKind(g) = "EvalAtom"
  /\ g' = GdbEvalAtomStep(GdbFresh(g))
  /\ UNCHANGED tagged_vars

GdbEvalNil ==
  /\ impl = "gdb"
  /\ GdbKind(g) = "EvalNil"
  /\ g' = GdbEvalNilStep(GdbFresh(g))
  /\ UNCHANGED tagged_vars

GdbEvalQuote ==
  /\ impl = "gdb"
  /\ GdbKind(g) = "EvalQuote"
  /\ g' = GdbEvalQuoteStep(GdbFresh(g))
  /\ UNCHANGED tagged_vars

GdbEvalCond ==
  /\ impl = "gdb"
  /\ GdbKind(g) = "EvalCond"
  /\ g' = GdbEvalCondStep(GdbFresh(g))
  /\ UNCHANGED tagged_vars

GdbEvalArgs ==
  /\ impl = "gdb"
  /\ GdbKind(g) = "EvalArgs"
  /\ g' = GdbEvalArgsStep(GdbFresh(g))
  /\ UNCHANGED tagged_vars

GdbEvalApply ==
  /\ impl = "gdb"
  /\ GdbKind(g) = "EvalApply"
  /\ g' = GdbEvalApplyStep(GdbFresh(g))
  /\ UNCHANGED tagged_vars

GdbEvalRet ==
  /\ impl = "gdb"
  /\ GdbKind(g) = "EvalRet"
  /\ g' = GdbEvalRetStep(GdbFresh(g))
  /\ UNCHANGED tagged_vars

GdbEvconTest ==
  /\ impl = "gdb"
  /\ GdbKind(g) = "EvconTest"
  /\ g' = GdbEvconTestStep(GdbFresh(g))
  /\ UNCHANGED tagged_vars

GdbEvconThen ==
  /\ impl = "gdb"
  /\ GdbKind(g) = "EvconThen"
  /\ g' = GdbEvconThenStep(GdbFresh(g))
  /\ UNCHANGED tagged_vars

GdbEvconElse ==
  /\ impl = "gdb"
  /\ GdbKind(g) = "EvconElse"
  /\ g' = GdbEvconElseStep(GdbFresh(g))
  /\ UNCHANGED tagged_vars

GdbEvconRet ==
  /\ impl = "gdb"
  /\ GdbKind(g) = "EvconRet"
  /\ g' = GdbEvconRetStep(GdbFresh(g))
  /\ UNCHANGED tagged_vars

GdbEvlisNil ==
  /\ impl = "gdb"
  /\ GdbKind(g) = "EvlisNil"
  /\ g' = GdbEvlisNilStep(GdbFresh(g))
  /\ UNCHANGED tagged_vars

GdbEvlisOne ==
  /\ impl = "gdb"
  /\ GdbKind(g) = "EvlisOne"
  /\ g' = GdbEvlisOneStep(GdbFresh(g))
  /\ UNCHANGED tagged_vars

GdbEvlisTwo ==
  /\ impl = "gdb"
  /\ GdbKind(g) = "EvlisTwo"
  /\ g' = GdbEvlisTwoStep(GdbFresh(g))
  /\ UNCHANGED tagged_vars

GdbEvlisCons ==
  /\ impl = "gdb"
  /\ GdbKind(g) = "EvlisCons"
  /\ g' = GdbEvlisConsStep(GdbFresh(g))
  /\ UNCHANGED tagged_vars

GdbApplyNil ==
  /\ impl = "gdb"
  /\ GdbKind(g) = "ApplyNil"
  /\ g' = GdbApplyNilStep(GdbFresh(g))
  /\ UNCHANGED tagged_vars

GdbApplyLambda ==
  /\ impl = "gdb"
  /\ GdbKind(g) = "ApplyLambda"
  /\ g' = GdbApplyLambdaStep(GdbFresh(g))
  /\ UNCHANGED tagged_vars

GdbApplyEq ==
  /\ impl = "gdb"
  /\ GdbKind(g) = "ApplyEq"
  /\ g' = GdbApplyEqStep(GdbFresh(g))
  /\ UNCHANGED tagged_vars

GdbApplyCons ==
  /\ impl = "gdb"
  /\ GdbKind(g) = "ApplyCons"
  /\ g' = GdbApplyConsStep(GdbFresh(g))
  /\ UNCHANGED tagged_vars

GdbApplyAtom ==
  /\ impl = "gdb"
  /\ GdbKind(g) = "ApplyAtom"
  /\ g' = GdbApplyAtomStep(GdbFresh(g))
  /\ UNCHANGED tagged_vars

GdbApplyCar ==
  /\ impl = "gdb"
  /\ GdbKind(g) = "ApplyCar"
  /\ g' = GdbApplyCarStep(GdbFresh(g))
  /\ UNCHANGED tagged_vars

GdbApplyCdr ==
  /\ impl = "gdb"
  /\ GdbKind(g) = "ApplyCdr"
  /\ g' = GdbApplyCdrStep(GdbFresh(g))
  /\ UNCHANGED tagged_vars

GdbApplyRead ==
  /\ impl = "gdb"
  /\ GdbKind(g) = "ApplyRead"
  /\ g' = GdbApplyReadStep(GdbFresh(g))
  /\ UNCHANGED tagged_vars

GdbApplyPrint ==
  /\ impl = "gdb"
  /\ GdbKind(g) = "ApplyPrint"
  /\ g' = GdbApplyPrintStep(GdbFresh(g))
  /\ UNCHANGED tagged_vars

GdbApplyLookup ==
  /\ impl = "gdb"
  /\ GdbKind(g) = "ApplyLookup"
  /\ g' = GdbApplyLookupStep(GdbFresh(g))
  /\ UNCHANGED tagged_vars

GdbApplyRetry ==
  /\ impl = "gdb"
  /\ GdbKind(g) = "ApplyRetry"
  /\ g' = GdbApplyRetryStep(GdbFresh(g))
  /\ UNCHANGED tagged_vars

GdbApplyRet ==
  /\ impl = "gdb"
  /\ GdbKind(g) = "ApplyRet"
  /\ g' = GdbApplyRetStep(GdbFresh(g))
  /\ UNCHANGED tagged_vars

Next ==
  \/ MainRead
  \/ MainEval
  \/ ReadExpression
  \/ ReadRet
  \/ GetList
  \/ AddList
  \/ AddListCons
  \/ MainPrint
  \/ EvalAtom
  \/ EvalQuote
  \/ EvalCond
  \/ EvalArgs
  \/ EvalApply
  \/ EvalGc
  \/ EvconTest
  \/ EvconThen
  \/ EvconElse
  \/ EvconRet
  \/ EvlisNil
  \/ EvlisOne
  \/ EvlisTwo
  \/ EvlisCons
  \/ ApplyLambda
  \/ ApplyLookup
  \/ ApplyRetry
  \/ ApplyRet
  \/ ApplyEq
  \/ ApplyCons
  \/ ApplyAtom
  \/ ApplyCar
  \/ ApplyCdr
  \/ ApplyRead
  \/ ApplyPrint
  \/ ApplyNone
  \/ GdbMainRead
  \/ GdbMainEval
  \/ GdbMainPrint
  \/ GdbReadExpr
  \/ GdbReadRet
  \/ GdbGetList
  \/ GdbAddList
  \/ GdbAddListCons
  \/ GdbEvalAtom
  \/ GdbEvalNil
  \/ GdbEvalQuote
  \/ GdbEvalCond
  \/ GdbEvalArgs
  \/ GdbEvalApply
  \/ GdbEvalRet
  \/ GdbEvconTest
  \/ GdbEvconThen
  \/ GdbEvconElse
  \/ GdbEvconRet
  \/ GdbEvlisNil
  \/ GdbEvlisOne
  \/ GdbEvlisTwo
  \/ GdbEvlisCons
  \/ GdbApplyNil
  \/ GdbApplyLambda
  \/ GdbApplyEq
  \/ GdbApplyCons
  \/ GdbApplyAtom
  \/ GdbApplyCar
  \/ GdbApplyCdr
  \/ GdbApplyRead
  \/ GdbApplyPrint
  \/ GdbApplyLookup
  \/ GdbApplyRetry
  \/ GdbApplyRet

Spec == Init /\ [][Next]_vars

(***************************************************************************)
(* Properties.                                                             *)
(***************************************************************************)
\* The cons handles reachable from obj through car and cdr, added to seen.
RECURSIVE Cells(_, _, _)
Cells(m, obj, seen) ==
  IF IS_ATOM(obj) \/ obj \in seen THEN seen
  ELSE Cells(m, cdr(m, obj), Cells(m, car(m, obj), seen \cup {obj}))

\* The number of cons nodes of the tree obj that lie below the handle top;
\* a node reached along two paths counts twice.
RECURSIVE NodesBelow(_, _, _, _)
NodesBelow(m, obj, top, fuel) ==
  IF IS_ATOM(obj) \/ obj >= top \/ fuel = 0 THEN 0
  ELSE 1 + NodesBelow(m, car(m, obj), top, fuel - 1)
         + NodesBelow(m, cdr(m, obj), top, fuel - 1)

\* An eval call has just returned; GcReturned: through its collection step.
Returned == lastret.valid
GcReturned == lastret.valid /\ lastret.kind = "gc"

\* C1 as stated: at every return of eval the result prints the same as the
\* result of the same evaluation run without the collection step, for every
\* program.
GcPreservationAnyProgram ==
  Returned => /\ ref.lastret.valid
              /\ Printed(M, ret) = Printed(ref, ref.ret)

\* C1: for a program that applies EQ to no cons cell, at every return of
\* eval (at any depth) the result after the collection step prints the same
\* as the result of the run that skips the collection step at every level,
\* and the two runs have written the same characters.
GcPreservation ==
  (Returned /\ ~eqcons) =>
    /\ ref.lastret.valid
    /\ Printed(M, ret) = Printed(ref, ref.ret)
    /\ out = ref.out

\* The collector moved a result that the reference run holds elsewhere.
GcPreservationWitness ==
  GcReturned /\ ~eqcons /\ IS_CONS(ret) /\ ret # ref.ret
  /\ Printed(M, ret) = Printed(ref, ref.ret)

\* C2: when an eval call returns, every cons handle reachable from its
\* result is at or above the heap cursor the call leaves.
NoDanglingResult ==
  Returned => \A h \in Cells(M, ret, {}) : h >= heap_ptr

\* A collected result whose root is the lowest live cell.
NoDanglingResultWitness ==
  GcReturned /\ IS_CONS(ret) /\ ret = heap_ptr /\ Cardinality(Cells(M, ret, {})) > 1

\* C3 as stated: after a COND or an application returned, every cell at or
\* above the cursor is reachable from the result.
NoGarbageAtOrAboveCursor ==
  GcReturned =>
    \A h \in heap_ptr .. -2 : h % 2 = 0 => h \in Cells(M, ret, {})

\* C3: after a COND or an application returned, every cell between the
\* cursor it leaves and the cursor it was entered with is reachable from
\* the result.
NoGarbageLeft ==
  GcReturned =>
    \A h \in heap_ptr .. lastret.A - 1 :
      h % 2 = 0 => h \in Cells(M, ret, {})

\* A nested call returned cells of its own.
NoGarbageLeftWitness ==
  GcReturned /\ heap_ptr < lastret.A /\ lastret.depth > 1

\* C4 as stated: two top-level evaluations with the same printed result
\* leave the cursor at the same distance from where it was at eval entry.
CursorDependsOnPrintedForm ==
  \A i, j \in 1 .. Len(hist) :
    hist[i].printed = hist[j].printed => hist[i].dist = hist[j].dist

\* C4: after the collection step the distance between the cursor at eval
\* entry and the cursor left is two words for every cons node of the result
\* tree that lies below the entry cursor, whatever the evaluation allocated.
CursorDependsOnShape ==
  GcReturned =>
    lastret.A - heap_ptr = 2 * NodesBelow(M, ret, lastret.A, MEMORY_SIZE)

\* A top-level result of two cells or more.
CursorDependsOnShapeWitness ==
  GcReturned /\ lastret.depth = 1 /\ lastret.A - heap_ptr >= 4

\* C5 as stated: every arena slot at an index at or above the entry cursor
\* holds at the return of eval the word it held at its entry.
OuterSlotsUntouched ==
  Returned => \A i \in lastret.A .. Hi : mem[i] = lastret.entry_mem[i]

\* C5: at the return of eval every heap slot from the entry cursor up to
\* the midpoint and every symbol-table word in use at the entry hold the
\* words they held at the entry, and the cursor is not above the entry
\* cursor.
OuterDataUntouched ==
  Returned =>
    /\ \A i \in lastret.A .. -1 : mem[i] = lastret.entry_mem[i]
    /\ \A i \in 0 .. Hi :
         (lastret.entry_mem[i] # 0 \/ (i > 0 /\ lastret.entry_mem[i - 1] # 0))
           => mem[i] = lastret.entry_mem[i]
    /\ heap_ptr <= lastret.A

\* An eval call during which READ interned a new symbol.
OuterDataUntouchedWitness ==
  Returned /\ lastret.A < 0 /\ \E i \in 0 .. Hi : mem[i] # lastret.entry_mem[i]

\* The name stored in the symbol table at handle i.
RECURSIVE NameAt(_, _)
NameAt(m, i) ==
  IF i > Hi \/ Rd(m, i) = 0 THEN <<>> ELSE <<Rd(m, i)>> \o NameAt(m, i + 1)

\* C6 as stated: the token staged for a lone ')' is the empty one, so no
\* intern call is made on the token ")".
LoneParenStagesEmptyToken ==
  \A p \in ilog : p[1] # <<RPAREN>>

\* C6: over the intern calls of a session two calls return equal handles
\* if and only if their tokens are byte-equal, every token staged has at
\* least one character (a lone ')' stages the token ")"), and the table
\* holds at every handle returned the bytes of its token ever after.
InternIdentity ==
  /\ \A p, q \in ilog : (p[2] = q[2]) <=> (p[1] = q[1])
  /\ \A p \in ilog : p[1] # <<>> /\ NameAt(M, p[2]) = p[1]

\* A session that interned a prefix and an extension of CAR, and the token
\* of a lone ')' in another.
InternIdentityWitness ==
  \E p, q, r \in ilog :
    /\ p[1] = Word.CA /\ q[1] = Word.CARS /\ r[1] = Word.CAR
    /\ p[2] # q[2] /\ p[2] # r[2] /\ q[2] # r[2]

\* The contract offsets of the built-in names.
BuiltinOffsets ==
  <<SYMBOL_NIL, SYMBOL_T, SYMBOL_QUOTE, SYMBOL_COND, SYMBOL_READ,
    SYMBOL_PRINT, SYMBOL_ATOM, SYMBOL_CAR, SYMBOL_CDR, SYMBOL_CONS,
    SYMBOL_EQ>>

InternOffsets ==
  \A p \in ilog :
    /\ \A n \in 1 .. Len(BuiltinNames) :
         p[1] = Word[BuiltinNames[n]] => p[2] = BuiltinOffsets[n]
    /\ (\A n \in 1 .. Len(BuiltinNames) : p[1] # Word[BuiltinNames[n]])
         => p[2] > SYMBOL_EQ

\* The primitive apply runs for the atom handle fn.
PrimOf(fn) ==
  CASE fn = SYMBOL_READ -> "READ"
    [] fn = SYMBOL_PRINT -> "PRINT"
    [] fn = SYMBOL_ATOM -> "ATOM"
    [] fn = SYMBOL_CAR -> "CAR"
    [] fn = SYMBOL_CDR -> "CDR"
    [] fn = SYMBOL_CONS -> "CONS"
    [] fn = SYMBOL_EQ -> "EQ"
    [] OTHER -> "none"

DispatchStep ==
  LET f == Top(M)
      n == Len(stack)
      in_apply == ~Halted(M) /\ f.fn = "apply"
      callee == stack'[n + 1]
  IN  /\ prim'.name # "none" =>
           in_apply /\ f.pc = "entry" /\ IS_ATOM(f.x) /\ prim'.fn = f.x
      /\ (in_apply /\ f.pc = "entry" /\ IS_ATOM(f.x)) =>
           prim'.name = PrimOf(f.x)
      /\ (in_apply /\ f.pc = "entry" /\ IS_ATOM(f.x) /\ f.x > SYMBOL_EQ) =>
           /\ Len(stack') = n + 1
           /\ callee.fn = "eval" /\ callee.pc = "entry"
           /\ callee.x = f.x /\ callee.env = f.env
      /\ (in_apply /\ f.pc = "fn") =>
           /\ Len(stack') = n + 1
           /\ callee.fn = "apply" /\ callee.pc = "entry"
           /\ callee.x = ret /\ callee.args = f.args /\ callee.env = f.env
      /\ (in_apply /\ f.pc = "ret") =>
           stack' = SubSeq(stack, 1, n - 1) /\ ret' = ret

\* C7: interning a built-in name returns its contract offset and any other
\* token a handle above 46; a step of apply runs a primitive exactly when
\* the atom in fn is one of 17, 22, 28, 33, 37, 41, 46, and then that one;
\* for an atom above 46 apply calls eval(fn, env), then apply on the value
\* with the same arguments and environment, and returns what that returns.
DispatchByHandle == [][DispatchStep /\ InternOffsets']_vars

\* CDR was run for a name that the environment resolved to CDR.
DispatchByHandleWitness ==
  /\ prim.name = "CDR"
  /\ Top(M).fn = "apply" /\ Top(M).pc = "ret" /\ Top(M).x > SYMBOL_EQ
  /\ \E p \in ilog : p[1] = Word.F /\ p[2] = Top(M).x

\* The cons handles the running program holds: the value just returned to
\* the frame on top, the frames' parameters and the words of the live heap.
HeldHandles ==
  {h \in (IF Top(M).pc \in {"entry", "read"} THEN {} ELSE {ret})
        \cup UNION {{stack[i].x, stack[i].env, stack[i].args} :
                     i \in 1 .. Len(stack)}
        \cup {mem[i] : i \in heap_ptr .. -1} : IS_CONS(h)}

\* C8: the heap cursor is at most the midpoint, intern writes at or above
\* the midpoint, cons and slide write below it, cons writes the two slots
\* h and h+1 of one pair, and the pairs held are aligned on even handles
\* at or above the cursor, so no two of them share a slot.
ArenaInvariants ==
  /\ heap_ptr <= 0
  /\ \A w \in wr :
       /\ w.k = "intern" => w.i >= 0
       /\ w.k \in {"cons", "slide"} => w.i < 0
       /\ w.k = "cons" =>
            [k |-> "cons", i |-> IF w.i % 2 = 0 THEN w.i + 1 ELSE w.i - 1]
              \in wr
  /\ status = "running" =>
       \A h \in HeldHandles : h % 2 = 0 /\ h >= heap_ptr /\ h + 1 < 0

\* A collection step: pairs were copied by cons and slid up.
ArenaInvariantsWitness ==
  /\ heap_ptr < 0
  /\ \E w1, w2 \in wr : w1.k = "cons" /\ w2.k = "slide"
  /\ \E p \in ilog : p[2] > SYMBOL_EQ

\* C9 as stated: no word outside the arena is ever written.
NoWriteOutsideArena ==
  \A w \in wr : w.i \in Arena

\* C10 as a statement on the log of evlis: the evaluation of element k+1
\* of an argument list starts only after that of element k has ended.
EvlisInOrder ==
  \A i \in 1 .. Len(evlog) :
    (evlog[i].t = "start" /\ evlog[i].k > 1) =>
      \E j \in 1 .. i - 1 :
        evlog[j] = [t |-> "end", chain |-> evlog[i].chain,
                    k |-> evlog[i].k - 1]

\* C10: evlis evaluates the elements of an argument list left to right,
\* each to its end before the next starts; so the program
\* (CONS (PRINT (QUOTE A)) (PRINT (QUOTE B))) writes A before B, and
\* (CONS (READ) (READ)) reads its first argument first.
EvlisLeftToRight ==
  /\ EvlisInOrder
  /\ (Sessions[session] = PrintAB /\ Len(out) >= 2) =>
       SubSeq(out, 1, 2) = Word.A \o Word.B
  /\ (Sessions[session] = ReadTwo /\ Len(hist) >= 1) =>
       hist[1].printed
         = Word["("] \o Word.CARS \o <<DOT>> \o Word.CA \o Word[")"]

\* Both PRINT arguments have been evaluated.
EvlisLeftToRightWitness ==
  /\ Sessions[session] = PrintAB
  /\ Len(out) >= 2
  /\ \E i \in 1 .. Len(evlog) : evlog[i].t = "end" /\ evlog[i].k = 2


\* The step of the sign-tagged eval on a form (QUOTE E): it returns to its
\* caller with the handle of E and leaves the arena, the cursor, the
\* output and the character source as they are.
TaggedQuoteStep ==
  (impl = "tagged" /\ Kind(M) = "EvalQuote") =>
    /\ ret' = Rd(M, Rd(M, Top(M).x + 1))
    /\ stack' = SubSeq(stack, 1, Len(stack) - 1)
    /\ lastret'.kind = "quote"
    /\ wr' = {} /\ mem' = mem /\ heap_ptr' = heap_ptr
    /\ out' = out /\ consumed' = consumed
    /\ source' = source /\ input_line' = input_line
    /\ input_pos' = input_pos /\ lookahead_char' = lookahead_char
    /\ status' = status

\* The same step of lisp_gdb.c.
GdbQuoteStep ==
  (impl = "gdb" /\ GdbKind(g) = "EvalQuote") =>
    /\ g'.ret = g.heap[g.heap[Top(g).x + 1].cdr + 1].car
    /\ g'.stack = SubSeq(g.stack, 1, Len(g.stack) - 1)
    /\ g'.heap = g.heap /\ g'.symbol_table = g.symbol_table
    /\ g'.out = g.out /\ g'.consumed = g.consumed
    /\ g'.source = g.source /\ g'.line = g.line /\ g'.ptr = g.ptr
    /\ g'.status = g.status

\* C11: QUOTE inhibits evaluation.  In both implementations eval of a form
\* (QUOTE E) in any environment returns the handle of E in one step: no
\* call of eval on a part of E, no cell allocated, the cursor not moved,
\* the collector not run, no character written or read.
QuoteInhibits == [][TaggedQuoteStep /\ GdbQuoteStep]_vars

\* A quoted list was returned inside a lambda body, where the environment
\* is not empty.
QuoteInhibitsWitness ==
  /\ lastret.valid /\ lastret.kind = "quote"
  /\ IS_CONS(lastret.result) /\ IS_CONS(lastret.env)
  /\ ret = Rd(M, Rd(M, lastret.expr + 1))

(***************************************************************************)
(* The car/cdr law.                                                        *)
(***************************************************************************)
\* cons(x, y) in the machine state m of part_000, which has room for a pair.
ConsLawAt(m, x, y) ==
  LET r == cons(m, x, y)
      h == r.v
  IN  /\ r.m.status = "running"
      /\ h = m.heap_ptr - 2 /\ h < 0 /\ IS_CONS(h)
      /\ r.m.heap_ptr = h
      /\ car(r.m, h) = x /\ cdr(r.m, h) = y
      /\ r.m.mem = [m.mem EXCEPT ![h] = x, ![h + 1] = y]

\* cons(x, y) in the state g of lisp_gdb.c, whose heap has a free slot.
GdbConsLawAt(g0, x, y) ==
  LET r == gdb_cons(g0, x, y)
      h == r.v
  IN  /\ r.m.status = "running"
      /\ h = Len(g0.heap) /\ TypeOf(r.m, h) = "CONS"
      /\ gdb_car(r.m, h).v = x /\ gdb_cdr(r.m, h).v = y
      /\ \A i \in 1 .. Len(g0.heap) : r.m.heap[i] = g0.heap[i]

\* C12: car/cdr law.  In every reachable state with room for one pair, for
\* all objects x and y, cons(x, y) returns a fresh handle h with car(h) = x
\* and cdr(h) = y and leaves every cell allocated before unchanged; in
\* part_000 h is negative and equals the previous cursor minus 2, in
\* lisp_gdb.c h is the object at the previous cursor.
ConsLaw ==
  /\ (impl = "tagged" /\ status = "running" /\ heap_ptr - 2 >= Lo) =>
       \A x, y \in {0, SYMBOL_T, ret, heap_ptr} : ConsLawAt(M, x, y)
  /\ (impl = "gdb" /\ g.status = "running" /\ Len(g.heap) < HEAP_SIZE) =>
       \A x, y \in {nil_obj, t_obj, g.ret, Len(g.heap) - 1} :
         GdbConsLawAt(g, x, y)

\* The primitive CONS has just consed an atom in front of a list: the new
\* cell is the two words under the previous cursor.
ConsLawWitness ==
  /\ impl = "tagged" /\ prim.name = "CONS"
  /\ ret = heap_ptr /\ ret < 0
  /\ wr = {[k |-> "cons", i |-> ret], [k |-> "cons", i |-> ret + 1]}
  /\ car(M, ret) > 0 /\ IS_CONS(cdr(M, ret))

(***************************************************************************)
(* Reading and printing.                                                   *)
(***************************************************************************)
\* What the implementation chosen has written, and its top-level results.
Out == IF impl = "tagged" THEN out ELSE g.out
Results == IF impl = "tagged" THEN hist ELSE g.hist

\* The expressions the read-back sessions answer (READ) with.
ReadBackForms ==
  {<<"(", "A", "(", "B", "C", ")", "(", "CA", ")", ")">>,
   <<"(", "A", "(", ")", "B", ")">>,
   <<"CARS">>,
   <<"(", ")">>}

\* The tokens with every empty list "(" ")" written NIL.
RECURSIVE NilForEmpty(_)
NilForEmpty(toks) ==
  IF Len(toks) < 2 THEN toks
  ELSE IF toks[1] = "(" /\ toks[2] = ")"
       THEN <<"NIL">> \o NilForEmpty(Tail(Tail(toks)))
       ELSE <<toks[1]>> \o NilForEmpty(Tail(toks))

\* The first line of output is the characters cs.
FirstLineIs(cs) ==
  /\ Len(Out) > Len(cs)
  /\ SubSeq(Out, 1, Len(cs) + 1) = cs \o <<NEWLINE>>

\* C13: read-print round trip.  For every expression E of the read-back
\* sessions, written with extra blanks, reading E and printing the object
\* read emits E in canonical spacing with every empty list () printed as
\* NIL.
ReadPrintRoundTrip ==
  \A toks \in ReadBackForms :
    (Sessions[session] = ReadBackOf(toks) /\ Len(Results) >= 1) =>
      FirstLineIs(Text(NilForEmpty(toks)))

\* A nested list containing an empty list has been read and printed.
ReadPrintRoundTripWitness ==
  /\ Sessions[session] = ReadBackEmpty
  /\ Len(Results) >= 1
  /\ FirstLineIs(Text(<<"(", "A", "NIL", "B", ")">>))

\* As the claim states it: the output is E itself in canonical spacing.
ReadPrintExact ==
  \A toks \in ReadBackForms :
    (Sessions[session] = ReadBackOf(toks) /\ Len(Results) >= 1) =>
      FirstLineIs(Text(toks))

(***************************************************************************)
(* NIL.                                                                    *)
(***************************************************************************)
\* The lines ls, each ended by a newline.
RECURSIVE Lines(_)
Lines(ls) ==
  IF ls = <<>> THEN <<>> ELSE ls[1] \o <<NEWLINE>> \o Lines(Tail(ls))

\* The output starts with the lines ls.
OutStartsWith(ls) ==
  /\ Len(Out) >= Len(Lines(ls))
  /\ SubSeq(Out, 1, Len(Lines(ls))) = Lines(ls)

\* Handle 0 in part_000: the atom named NIL, the end of every list.
TaggedNil ==
  /\ IS_ATOM(0) /\ ~IS_CONS(0)
  /\ Printed(M, 0) = Word.NIL
  /\ \A p \in ilog : (p[1] = Word.NIL) <=> (p[2] = 0)
  /\ Kind(M) = "EvconThen" => ret # 0
  /\ Kind(M) = "EvconElse" => ret = 0
  /\ (Kind(M) = "EvlisNil") <=>
       (~Halted(M) /\ Top(M).fn = "evlis" /\ Top(M).pc = "entry"
          /\ Top(M).x = 0)
  /\ ~Halted(M) => pairlis(M, 0, ret, heap_ptr).v = heap_ptr
  /\ assoc(M, SYMBOL_T, 0) = 0
  /\ (IS_CONS(ret) /\ cdr(M, ret) = 0) => print_tail(M, ret) = M

\* nil_obj in lisp_gdb.c: the one object of type NIL.
GdbNil ==
  /\ \A i \in 1 .. Len(g.heap) : (g.heap[i].type = "NIL") <=> (i = nil_obj + 1)
  /\ is_atom(g, nil_obj)
  /\ GdbPrinted(g, nil_obj) = Word.NIL
  /\ GdbKind(g) = "EvconThen" => g.ret # nil_obj
  /\ GdbKind(g) = "EvconElse" => g.ret = nil_obj
  /\ (GdbKind(g) = "EvlisNil") <=>
       (g.status = "running" /\ Top(g).fn = "evlis" /\ Top(g).pc = "entry"
          /\ Top(g).x = nil_obj)
  /\ gdb_pairlis(g, nil_obj, g.ret, g.ret).v = g.ret
  /\ gdb_assoc(g, t_obj, nil_obj).v = nil_obj
  /\ (TypeOf(g, g.ret) = "CONS" /\ gdb_cdr(g, g.ret).v = nil_obj) =>
       gdb_print_tail(g, gdb_cdr(g, g.ret).v) = g

\* C14: the three roles of NIL are one object.  The token NIL and the empty
\* list () read as the same handle 0, which prints as NIL, is an atom and
\* never a cons, is the only value COND takes for false, and ends evlis,
\* pairlis, assoc and the printer's list loop.
NilIsOneObject ==
  /\ impl = "tagged" => TaggedNil
  /\ impl = "gdb" => GdbNil
  /\ (Sessions[session] = NilRoles /\ Len(Results) = 3) =>
       OutStartsWith(<<Word.T, Word.T, Word.B>>)
  /\ (Sessions[session] = ReadBackUnit /\ Len(Results) = 1) =>
       Results[1].result = 0

\* (EQ (QUOTE NIL) (QUOTE ())) gave T, (ATOM ()) gave T and the COND whose
\* first test is () took its second clause, whose test is the atom F.
NilIsOneObjectWitness ==
  /\ Sessions[session] = NilRoles /\ Len(Results) = 3
  /\ OutStartsWith(<<Word.T, Word.T, Word.B>>)

(***************************************************************************)
(* The head of a function.                                                 *)
(***************************************************************************)
\* C15: the head of a function-position cons is not inspected.  In both
\* implementations apply, entered with a cons (h params body) for fn, takes
\* the lambda branch whatever the atom h is, and ((F (X) X) (QUOTE A))
\* prints A.
ApplyIgnoresHead ==
  /\ (impl = "tagged" /\ ~Halted(M) /\ Top(M).fn = "apply"
        /\ Top(M).pc = "entry" /\ IS_CONS(Top(M).x)) =>
       Kind(M) = "ApplyLambda"
  /\ (impl = "gdb" /\ g.status = "running" /\ Top(g).fn = "apply"
        /\ Top(g).pc = "entry" /\ TypeOf(g, Top(g).x) = "CONS") =>
       GdbKind(g) = "ApplyLambda"
  /\ (Sessions[session] = AnyHead /\ Len(Results) >= 1) =>
       OutStartsWith(<<Word.A>>)

(***************************************************************************)
(* The end of input.                                                       *)
(***************************************************************************)
\* Whether the process has called exit(0).
Exited == IF impl = "tagged" THEN status = "exited" ELSE g.status = "exited"

\* The sessions that end in mid-line, each with the results of the complete
\* top-level expressions supplied before the end of input.
EndForms ==
  {[lines |-> EndAfterOne, results |-> <<Word.A>>],
   [lines |-> EndAfterTwo, results |-> <<Word.A, Word.B>>],
   [lines |-> EndInList, results |-> <<Word.A>>],
   [lines |-> EndInRead, results |-> <<Word.A>>]}

\* C16: graceful end of input.  When the process has exited at the end of
\* input, it has printed the result of every complete top-level expression
\* supplied, each followed by a newline, and then one final newline; the end
\* of input inside an unfinished list or during a READ call ends it the same
\* way.  The exit is exit(0).
GracefulEnd ==
  \A e \in EndForms :
    (Sessions[session] = e.lines /\ Exited) =>
      Out = Lines(e.results) \o <<NEWLINE>>

(***************************************************************************)
(* Dotted pairs.                                                           *)
(***************************************************************************)
\* The printed form of the last returned value when it is a pair whose cdr
\* is an atom other than NIL: "(", the car, sep, the cdr, ")".
PairPrintedWith(sep) ==
  /\ (impl = "tagged" /\ ~Halted(M) /\ IS_CONS(ret) /\ cdr(M, ret) > 0) =>
       Printed(M, ret) =
         <<LPAREN>> \o Printed(M, car(M, ret)) \o sep
           \o Printed(M, cdr(M, ret)) \o <<RPAREN>>
  /\ (impl = "gdb" /\ g.status = "running" /\ TypeOf(g, g.ret) = "CONS"
        /\ TypeOf(g, gdb_cdr(g, g.ret).v) = "ATOM") =>
       GdbPrinted(g, g.ret) =
         <<LPAREN>> \o GdbPrinted(g, gdb_car(g, g.ret).v) \o sep
           \o GdbPrinted(g, gdb_cdr(g, g.ret).v) \o <<RPAREN>>

\* C17: dotted-pair output.  ((LAMBDA (X) (CONS X X)) (QUOTE A)) prints
\* (A∙A) and a newline, and a pair whose cdr is a non-NIL atom prints as
\* "(", its car, the separator U+2219 with no blank on either side, its
\* cdr, ")".
DottedPairOutput ==
  /\ PairPrintedWith(<<DOT>>)
  /\ (Sessions[session] = DottedPair /\ Len(Results) >= 1) =>
       OutStartsWith(<<<<LPAREN>> \o Word.A \o <<DOT>> \o Word.A
                         \o <<RPAREN>>>>)

\* The top level has printed the pair (A∙A).
DottedPairOutputWitness ==
  /\ Sessions[session] = DottedPair /\ Len(Results) = 1
  /\ Out = <<LPAREN, 65, DOT, 65, RPAREN, NEWLINE>>

\* As the claim states it: a blank on each side of the separator.
DottedPairSpaced ==
  /\ PairPrintedWith(<<SPACE, DOT, SPACE>>)
  /\ (Sessions[session] = DottedPair /\ Len(Results) >= 1) =>
       OutStartsWith(<<<<LPAREN>> \o Word.A \o <<SPACE, DOT, SPACE>>
                         \o Word.A \o <<RPAREN>>>>)

(***************************************************************************)
(* The firstatom program.                                                  *)
(***************************************************************************)
\* The lists the firstatom sessions take, each with its leftmost leaf.
FirstAtomForms ==
  {[list |-> <<"(", "(", "A", ")", "B", "C", ")">>, leaf |-> Word.A],
   [list |-> <<"(", "(", "(", "B", ")", "A", ")", "C", ")">>,
    leaf |-> Word.B]}

\* C18: recursion through the environment with collection at every level.
\* The firstatom program applied to a nested list L prints the leftmost leaf
\* of L and nothing else, the run ends by the end of input and in no other
\* way, and when the top-level eval of part_000 returns the heap cursor is
\* the cursor at its entry.
FirstAtomReclaims ==
  \A e \in FirstAtomForms :
    Sessions[session] = FirstAtomOf(e.list) =>
      /\ impl = "tagged" => status \in {"running", "exited"}
      /\ impl = "gdb" => g.status \in {"running", "exited"}
      /\ Exited => Len(Results) = 1
      /\ Len(Results) >= 1 =>
           /\ OutStartsWith(<<e.leaf>>)
           /\ impl = "tagged" => hist[1].dist = 0 /\ hist[1].A < 0
      /\ (impl = "tagged" /\ GcReturned /\ lastret.depth = 1) =>
           heap_ptr = lastret.A /\ NameAt(M, ret) = e.leaf

\* The top-level eval of the firstatom program has returned the leaf B of
\* (((B) A) C) after three nested calls of FF, with the cursor back at its
\* entry value below the program's cells.
FirstAtomReclaimsWitness ==
  /\ Sessions[session] = FirstAtomDeep /\ impl = "tagged"
  /\ GcReturned /\ lastret.depth = 1
  /\ heap_ptr = lastret.A /\ heap_ptr < 0
  /\ Printed(M, ret) = Word.B

(***************************************************************************)
(* flatten.lisp.                                                           *)
(***************************************************************************)
\* The lists the FLATTEN sessions take, each with the list of its elements
\* flattened by one level.
FlattenForms ==
  {[list |-> <<"(", "(", "A", ")", "B", "C", ")">>,
    flat |-> <<"(", "A", "B", "C", ")">>],
   [list |-> <<"(", "(", "A", "B", ")", "C", ")">>,
    flat |-> <<"(", "A", "B", "C", ")">>]}

\* C19: FLATTEN flattens a list by one level.  The expression of
\* flatten.lisp applied to a list X of atoms and non-empty lists of atoms
\* evaluates to the list of the atom elements and of all the elements of
\* the list elements, in order: (A B C) for ((A) B C) and for ((A B) C).
FlattenOneLevel ==
  \A e \in FlattenForms :
    (Sessions[session] = FlattenOf(e.list) /\ Len(Results) >= 1) =>
      OutStartsWith(<<Text(e.flat)>>)

(***************************************************************************)
(* PRINT.                                                                  *)
(***************************************************************************)
\* A step of apply for PRINT in part_000.
TaggedPrintStep ==
  (impl = "tagged" /\ Kind(M) = "ApplyPrint") =>
    LET args == Top(M).args
    IN  /\ ret' = 0
        /\ stack' = SubSeq(stack, 1, Len(stack) - 1)
        /\ heap_ptr' = heap_ptr /\ mem' = mem /\ wr' = {}
        /\ status' = status /\ consumed' = consumed
        /\ args # 0 => out' = out \o Printed(M, car(M, args))
        /\ args = 0 => out' = out \o <<NEWLINE>>

\* A step of apply for PRINT in lisp_gdb.c.
GdbPrintStep ==
  (impl = "gdb" /\ GdbKind(g) = "ApplyPrint") =>
    LET args == Top(g).args
    IN  /\ g'.ret = nil_obj
        /\ g'.stack = SubSeq(g.stack, 1, Len(g.stack) - 1)
        /\ g'.heap = g.heap /\ g'.symbol_table = g.symbol_table
        /\ g'.status = g.status /\ g'.consumed = g.consumed
        /\ TypeOf(g, args) # "NIL" =>
             g'.out = g.out \o GdbPrinted(g, gdb_car(g, args).v)
        /\ TypeOf(g, args) = "NIL" => g'.out = g.out \o <<NEWLINE>>

\* C20: the PRINT primitive.  With an argument PRINT writes the printed
\* form of the argument's value and no newline, with no argument it writes
\* one newline; in both cases it returns NIL and allocates no cell.
PrintPrimitive == [][TaggedPrintStep /\ GdbPrintStep]_vars

\* The second PRINT of (CONS (PRINT (QUOTE A)) (PRINT (QUOTE B))) has
\* returned NIL: the output is AB, with no newline in it.
PrintPrimitiveWitness ==
  /\ impl = "tagged" /\ prim.name = "PRINT"
  /\ ret = 0 /\ out = Word.A \o Word.B

(***************************************************************************)
(* Variable lookup.                                                        *)
(***************************************************************************)
\* The elements of the list l of machine m.
RECURSIVE ListSeq(_, _)
ListSeq(m, l) ==
  IF IS_ATOM(l) THEN <<>> ELSE <<car(m, l)>> \o ListSeq(m, cdr(m, l))

\* The value bound to x by the first pair of the sequence of pairs ps whose
\* car is x, NIL when there is none.
FirstBinding(m, ps, x) ==
  LET hits == {i \in 1 .. Len(ps) : car(m, ps[i]) = x}
  IN  IF hits = {} THEN 0
      ELSE cdr(m, ps[CHOOSE i \in hits : \A j \in hits : i <= j])

\* The handles of the atoms interned so far.
Atoms == {0} \cup {p[2] : p \in ilog}

\* eval of an atom: the value is the first binding of the atom in env, and
\* every element of env is a pair.
LookupStep ==
  (impl = "tagged" /\ Kind(M) = "EvalAtom") =>
    LET ps == ListSeq(M, Top(M).env)
    IN  /\ \A i \in 1 .. Len(ps) : IS_CONS(ps[i])
        /\ ret' = FirstBinding(M, ps, Top(M).x)
        /\ ret' = assoc(M, Top(M).x, Top(M).env)
        /\ stack' = SubSeq(stack, 1, Len(stack) - 1)
        /\ mem' = mem /\ heap_ptr' = heap_ptr

\* apply of a lambda whose parameters and arguments have equal length: in
\* the environment of the body each parameter has the argument at its first
\* position and every other atom the value it had.
BindStep ==
  (impl = "tagged" /\ Kind(M) = "ApplyLambda" /\ status' = "running") =>
    LET keys == ListSeq(M, car(M, cdr(M, Top(M).x)))
        values == ListSeq(M, Top(M).args)
        old == Top(M).env
        new == Top(M').env
        first(k) == CHOOSE i \in 1 .. Len(keys) :
                      keys[i] = k /\ \A j \in 1 .. i - 1 : keys[j] # k
    IN  Len(keys) = Len(values) =>
          /\ Top(M').fn = "eval" /\ Len(stack') = Len(stack) + 1
          /\ \A i \in 1 .. Len(keys) :
               assoc(M', keys[i], new) = values[first(keys[i])]
          /\ \A x \in Atoms :
               (\A i \in 1 .. Len(keys) : keys[i] # x) =>
                 assoc(M', x, new) = assoc(M, x, old)

\* C21: variable lookup.  eval of an atom x in environment a is assoc(x, a):
\* the cdr of the first pair of a whose car is x, NIL when a has none, with
\* every element of a a pair; after pairlis(keys, values, a) with lists of
\* equal length each key has the value at its first position in keys and
\* every other atom resolves as it did in a.
VariableLookup == [][LookupStep /\ BindStep]_vars

\* The inner lambda of the second expression has looked up X: bound to A by
\* the outer lambda and to B by the inner one, it resolved to B.
VariableLookupWitness ==
  /\ impl = "tagged" /\ Sessions[session] = Shadow
  /\ lastret.valid /\ lastret.kind = "atom"
  /\ NameAt(M, lastret.expr) = Word.X
  /\ NameAt(M, ret) = Word.B
  /\ Len(ListSeq(M, lastret.env)) = 3

(***************************************************************************)
(* The character stream.                                                   *)
(***************************************************************************)
\* The characters of the lines ls, each line followed by one newline.
RECURSIVE LineStream(_)
LineStream(ls) ==
  IF ls = <<>> THEN <<>> ELSE ls[1] \o <<NEWLINE>> \o LineStream(Tail(ls))

\* The lookahead character and the number of characters get_char has
\* stored, in the implementation chosen.
Lookahead == IF impl = "tagged" THEN lookahead_char ELSE g.lookahead_char
Stored == IF impl = "tagged" THEN consumed ELSE g.consumed

\* C22: the modernized get_char delivers the character stream of GetChar
\* and of lisp_gdb.c's get_char.  Call n returns what call n - 1 stored, 0
\* at first, and the characters stored are those of each line followed by
\* one newline, so that a token never spans two lines: (QUOTE and A) on two
\* lines read as (QUOTE A) and print A.
SameCharacterStream ==
  /\ Stored <= Len(LineStream(Sessions[session]))
  /\ Lookahead = IF Stored = 0 THEN 0
                 ELSE LineStream(Sessions[session])[Stored]
  /\ (Sessions[session] = SplitLine /\ Len(Results) >= 1) =>
       OutStartsWith(<<Word.A>>)

(***************************************************************************)
(* Tokens.                                                                 *)
(***************************************************************************)
\* The delimiters the tokenizer is documented to have.
Delimiter(c) == c <= SPACE \/ c = LPAREN \/ c = RPAREN

\* The maximal runs of non-delimiter characters in cs; cur is the run open
\* at the head of cs.
RECURSIVE RunsOf(_, _)
RunsOf(cs, cur) ==
  IF cs = <<>> THEN IF cur = <<>> THEN {} ELSE {cur}
  ELSE IF Delimiter(cs[1])
       THEN (IF cur = <<>> THEN {} ELSE {cur}) \cup RunsOf(Tail(cs), <<>>)
       ELSE RunsOf(Tail(cs), Append(cur, cs[1]))

\* The tokens interned from the input so far.
Interned ==
  IF impl = "tagged" THEN {p[1] : p \in ilog}
  ELSE {g.symbol_table[i] : i \in 1 .. Len(g.symbol_table)}
         \ {GdbInitTable(1)[i] : i \in 1 .. Len(GdbInitTable(1))}

\* C23: get_token stages a parenthesis or a maximal run of characters other
\* than the delimiters, which are the characters up to space, ( and ): the
\* characters ! to ' do not end or split a token, so (QUOTE A!B) interns
\* QUOTE and A!B and prints A!B.
MaximalRunTokens ==
  Sessions[session] = Bang =>
    /\ Interned \subseteq RunsOf(Bang[1], <<>>)
    /\ Len(Results) >= 1 => OutStartsWith(<<Word["A!B"]>>)

(***************************************************************************)
(* COND.                                                                   *)
(***************************************************************************)
\* s is an initial part of t.
IsPrefix(s, t) == Len(s) <= Len(t) /\ s = SubSeq(t, 1, Len(s))

\* What the session CondOrder prints when only the tests of the first two
\* clauses and the body of the second are evaluated, and the line after the
\* conditional is left for the read-eval-print loop.
CondOrderOutput ==
  Word.A \o Word.B \o Word.C \o Word.T \o <<NEWLINE>>
    \o Word.Y \o <<NEWLINE, NEWLINE>>

\* One step of evcon in part_000: the test of the first clause is evaluated
\* first; a value other than NIL selects the body of that clause, NIL the
\* remaining clauses, and the value of that call is the value of evcon.
TaggedEvconStep ==
  (impl = "tagged" /\ status' = "running"
     /\ Kind(M) \in {"EvconTest", "EvconThen", "EvconElse", "EvconRet"}) =>
    LET f == Top(M)
        n == Len(stack)
        clause == car(M, f.x)
    IN  /\ out' = out /\ consumed' = consumed /\ mem' = mem
        /\ Kind(M) = "EvconRet" =>
             ret' = ret /\ stack' = SubSeq(stack, 1, n - 1)
        /\ Kind(M) # "EvconRet" =>
             /\ Len(stack') = n + 1
             /\ SubSeq(stack', 1, n - 1) = SubSeq(stack, 1, n - 1)
             /\ stack'[n + 1].env = f.env /\ stack'[n + 1].pc = "entry"
        /\ Kind(M) = "EvconTest" =>
             /\ f.pc = "entry" /\ stack'[n].pc = "test"
             /\ stack'[n + 1].fn = "eval"
             /\ stack'[n + 1].x = car(M, clause)
        /\ Kind(M) = "EvconThen" =>
             /\ f.pc = "test" /\ ret # 0 /\ stack'[n].pc = "ret"
             /\ stack'[n + 1].fn = "eval"
             /\ stack'[n + 1].x = car(M, cdr(M, clause))
        /\ Kind(M) = "EvconElse" =>
             /\ f.pc = "test" /\ ret = 0 /\ stack'[n].pc = "ret"
             /\ stack'[n + 1].fn = "evcon"
             /\ stack'[n + 1].x = cdr(M, f.x)

\* The same step in lisp_gdb.c.
GdbEvconStep ==
  (impl = "gdb" /\ g'.status = "running"
     /\ GdbKind(g) \in {"EvconTest", "EvconThen", "EvconElse", "EvconRet"}) =>
    LET f == Top(g)
        n == Len(g.stack)
        clause == gdb_car(g, f.x).v
    IN  /\ g'.out = g.out /\ g'.consumed = g.consumed /\ g'.heap = g.heap
        /\ GdbKind(g) = "EvconRet" =>
             g'.ret = g.ret /\ g'.stack = SubSeq(g.stack, 1, n - 1)
        /\ GdbKind(g) # "EvconRet" =>
             /\ Len(g'.stack) = n + 1
             /\ g'.stack[n + 1].env = f.env /\ g'.stack[n + 1].pc = "entry"
        /\ GdbKind(g) = "EvconTest" =>
             /\ g'.stack[n].pc = "test"
             /\ g'.stack[n + 1].fn = "eval"
             /\ g'.stack[n + 1].x = gdb_car(g, clause).v
        /\ GdbKind(g) = "EvconThen" =>
             /\ f.pc = "test" /\ g.ret # nil_obj /\ g'.stack[n].pc = "ret"
             /\ g'.stack[n + 1].fn = "eval"
             /\ g'.stack[n + 1].x = gdb_car(g, gdb_cdr(g, clause).v).v
        /\ GdbKind(g) = "EvconElse" =>
             /\ f.pc = "test" /\ g.ret = nil_obj /\ g'.stack[n].pc = "ret"
             /\ g'.stack[n + 1].fn = "evcon"
             /\ g'.stack[n + 1].x = gdb_cdr(g, f.x).v

\* The effects of the session CondOrder: A and B are printed by the tests
\* of the first two clauses, C by the body of the second, whose value T is
\* the result; X, P and the READ of the third clause never happen, so the
\* next line is evaluated as the second expression.
CondEffects ==
  Sessions[session] = CondOrder =>
    /\ IsPrefix(Out, CondOrderOutput)
    /\ Len(Results) <= 2
    /\ Exited => Out = CondOrderOutput

\* C24: evcon evaluates the tests in clause order, stops at the first test
\* whose value is not NIL, evaluates the body of that clause and returns its
\* value; the bodies of the clauses that failed and the tests and bodies of
\* the later clauses are not evaluated, and none of their PRINT or READ
\* effects occur.
CondSelection == [][TaggedEvconStep /\ GdbEvconStep /\ CondEffects']_vars

CondSelectionWitness ==
  /\ Sessions[session] = CondOrder
  /\ Exited
  /\ Len(Results) = 2
  /\ Out = CondOrderOutput

(***************************************************************************)
(* apply of NIL in part_000.                                               *)
(***************************************************************************)
\* apply is entered with NIL as fn.
AtApplyNil ==
  /\ impl = "tagged"
  /\ status = "running"
  /\ Top(M).fn = "apply" /\ Top(M).pc = "entry" /\ Top(M).x = 0

\* What the session ApplyNil prints.
ApplyNilOutput ==
  Word.NIL \o <<NEWLINE>> \o Word.NIL \o <<NEWLINE, NEWLINE>>

\* apply(NIL, x, a) returns NIL at once, for every x and a.
ApplyNilStep ==
  AtApplyNil =>
    /\ stack' = SubSeq(stack, 1, Len(stack) - 1)
    /\ ret' = 0
    /\ status' = "running"
    /\ mem' = mem /\ heap_ptr' = heap_ptr /\ out' = out
    /\ consumed' = consumed

\* A name in function position whose value is NIL: apply is called on NIL
\* with the same arguments and environment.
ApplyNameNilStep ==
  (impl = "tagged" /\ Kind(M) = "ApplyRetry" /\ ret = 0) =>
    /\ Len(stack') = Len(stack) + 1
    /\ stack'[Len(stack)].pc = "ret"
    /\ LET f == stack'[Len(stack')]
       IN  /\ f.fn = "apply" /\ f.pc = "entry" /\ f.x = 0
           /\ f.args = Top(M).args /\ f.env = Top(M).env

\* C25 as stated: apply(NIL, x, a) in part_000 never returns.
ApplyNilDiverges ==
  [][~(AtApplyNil /\ Len(stack') < Len(stack))]_vars

\* C25: in part_000 apply(NIL, x, a) returns NIL without evaluating
\* anything, for every x and a, and so does the application of a name whose
\* value is NIL: (NIL (QUOTE A)) and (F (QUOTE A)) both print NIL.
ApplyNilReturns ==
  [][/\ ApplyNilStep
     /\ ApplyNameNilStep
     /\ (impl = "tagged" /\ Sessions[session] = ApplyNil) =>
          IsPrefix(out', ApplyNilOutput)]_vars

ApplyNilReturnsWitness ==
  /\ impl = "tagged"
  /\ Sessions[session] = ApplyNil
  /\ status = "exited"
  /\ Len(hist) = 2
  /\ out = ApplyNilOutput

(***************************************************************************)
(* evlis in lisp_gdb.c.                                                    *)
(***************************************************************************)
\* C26: evlis of lisp_gdb.c evaluates the elements left to right under
\* every order in which the two arguments of
\* cons(eval(car(exprs), env), evlis(cdr(exprs), env)) may be evaluated:
\* (CONS (PRINT (QUOTE A)) (PRINT (QUOTE B))) writes A before B, and
\* (CONS (READ) (READ)) gives its first argument the first expression read.
GdbEvlisLeftToRight ==
  impl = "gdb" =>
    /\ (Sessions[session] = PrintAB /\ Len(g.out) >= 2) =>
         SubSeq(g.out, 1, 2) = Word.A \o Word.B
    /\ (Sessions[session] = ReadTwo /\ Len(g.hist) >= 1) =>
         g.hist[1].printed
           = Word["("] \o Word.CARS \o <<DOT>> \o Word.CA \o Word[")"]

(***************************************************************************)
(* The slide.                                                              *)
(***************************************************************************)
\* The slide after the copy r made by gc, with A the cursor at the entry of
\* eval and B the cursor after the body; C is the cursor after the copy.
SlideLaw(r, A, B) ==
  LET C == r.m.heap_ptr
  IN  /\ C <= B /\ B <= A
      /\ \A k \in 1 .. B - C : mem'[A - k] = r.m.mem[B - k]
      /\ \A i \in Arena : (i < A - (B - C) \/ i >= A) => mem'[i] = r.m.mem[i]
      /\ heap_ptr' = A - (B - C)
      /\ ret' = r.v
      /\ \A v \in {r.v} \cup {r.m.mem[i] : i \in C .. B - 1} :
           (IS_CONS(v) /\ v < A) =>
             /\ heap_ptr' <= v /\ C <= v - (A - B) /\ v - (A - B) < B
             /\ mem'[v] = r.m.mem[v - (A - B)]
             /\ mem'[v + 1] = r.m.mem[v - (A - B) + 1]

\* The last step copied into slots that the slide then overwrote: the two
\* ranges overlap.
SlideOverlapped ==
  \E a, b \in wr : a.k = "slide" /\ b.k = "cons" /\ a.i = b.i

\* C27: with A the cursor at eval entry, B the cursor after the body and C
\* the cursor after the copy, the slide leaves in slot A - k the word slot
\* B - k held before it, for k from 1 to B - C, also when the two ranges
\* overlap; the cursor becomes A - (B - C), and every handle the copy stored
\* or returned designates the slid place of its cell.
SlideStep ==
  [][(impl = "tagged" /\ Kind(M) = "EvalGc" /\ status' = "running") =>
       SlideLaw(gc(M, ret, Top(M).saved, Top(M).saved - heap_ptr),
                Top(M).saved, heap_ptr)]_vars

SlideStepWitness ==
  /\ impl = "tagged"
  /\ GcReturned
  /\ status = "running"
  /\ SlideOverlapped
  /\ heap_ptr < lastret.A

(***************************************************************************)
(* The order of the cells.                                                 *)
(***************************************************************************)
\* v, stored in the cell at h, is an atom or the handle of a cell above h.
PointsUp(h, v) == IS_ATOM(v) \/ (v > h /\ v < 0 /\ (v - h) % 2 = 0)

\* The cells of machine m from its cursor up to 0 are in order.
OrderedIn(m) ==
  /\ m.heap_ptr <= 0 /\ m.heap_ptr % 2 = 0
  /\ \A i \in 1 .. (0 - m.heap_ptr) \div 2 :
       /\ PointsUp(m.heap_ptr + 2 * (i - 1), m.mem[m.heap_ptr + 2 * (i - 1)])
       /\ PointsUp(m.heap_ptr + 2 * (i - 1),
                   m.mem[m.heap_ptr + 2 * (i - 1) + 1])

\* C28: in part_000 every allocated cell h, heap_ptr <= h < 0, has a car
\* and a cdr that are each an atom or the handle of a cell strictly above
\* h, when read_expression, cons or eval returns, the cons calls of the
\* copy included; so no cell at or above a cursor A refers to a cell below
\* A.
HeapOrdered ==
  (impl = "tagged" /\ status # "ub") =>
    /\ OrderedIn(M)
    /\ (Kind(M) = "EvalGc" /\ Top(M).saved - heap_ptr >= 0) =>
         OrderedIn(gc(M, ret, Top(M).saved, Top(M).saved - heap_ptr).m)

\* An eval has returned a collected result whose cells, now slid under the
\* cursor of its entry, refer to one another.
HeapOrderedWitness ==
  /\ impl = "tagged"
  /\ GcReturned
  /\ status = "running"
  /\ heap_ptr < lastret.A
  /\ ret = heap_ptr
  /\ IS_CONS(mem[ret]) /\ mem[ret] < lastret.A
  /\ IS_CONS(mem[ret + 1]) /\ mem[ret + 1] < lastret.A

(***************************************************************************)
(* The size of the copy.                                                   *)
(***************************************************************************)
\* The cells below the handle top met in the tree obj, each once.
RECURSIVE CellsBelow(_, _, _, _)
CellsBelow(m, obj, top, fuel) ==
  IF IS_ATOM(obj) \/ obj >= top \/ fuel = 0 THEN {}
  ELSE {obj} \cup CellsBelow(m, car(m, obj), top, fuel - 1)
             \cup CellsBelow(m, cdr(m, obj), top, fuel - 1)

\* The leaves of that traversal from left to right: the atoms and the
\* handles at or above top.
RECURSIVE Fringe(_, _, _, _)
Fringe(m, obj, top, fuel) ==
  IF IS_ATOM(obj) \/ obj >= top \/ fuel = 0 THEN <<obj>>
  ELSE Fringe(m, car(m, obj), top, fuel - 1)
         \o Fringe(m, cdr(m, obj), top, fuel - 1)

\* The collection of the result R of a body, entered with cursor A, of n
\* nodes below A: n cells are made, all different, with the leaves of R.
CopyLaw(A, n) ==
  /\ heap_ptr' = A - 2 * n
  /\ Cardinality(CellsBelow(M', ret', A, MEMORY_SIZE)) = n
  /\ CellsBelow(M', ret', A, MEMORY_SIZE)
       = {heap_ptr' + 2 * (i - 1) : i \in 1 .. n}
  /\ Fringe(M', ret', A, MEMORY_SIZE) = Fringe(M, ret, A, MEMORY_SIZE)
  /\ ret >= A => ret' = ret

\* C29: when a non-trivial eval entered with cursor A returns R, the cursor
\* is A - 2 * n, n being the number of cons nodes below A met in the tree
\* traversal of R that stops at atoms and at handles at or above A; a cell
\* met k times is copied k times, so sharing inside the new part of R is
\* lost, and what lies at or above A is returned as it is.
CopySize ==
  [][(impl = "tagged" /\ Kind(M) = "EvalGc" /\ status' = "running") =>
       CopyLaw(Top(M).saved,
               NodesBelow(M, ret, Top(M).saved, MEMORY_SIZE))]_vars

\* The top-level result of Quadruple: the two occurrences of the argument in
\* (CONS X X) are now two cells that print alike.
CopySizeWitness ==
  /\ impl = "tagged"
  /\ Sessions[session] = Quadruple
  /\ GcReturned /\ lastret.depth = 1 /\ status = "running"
  /\ lastret.A - heap_ptr = 22
  /\ LET pair == car(M, ret)
     IN  /\ IS_CONS(car(M, pair)) /\ car(M, pair) < lastret.A
         /\ IS_CONS(cdr(M, pair)) /\ cdr(M, pair) < lastret.A
         /\ car(M, pair) # cdr(M, pair)
         /\ Printed(M, car(M, pair)) = Printed(M, cdr(M, pair))

(***************************************************************************)
(* The heap of lisp_gdb.c.                                                 *)
(***************************************************************************)
\* The process ended in make_atom or make_cons.
HeapOverflowed(h) ==
  h.status = "failed" /\ h.err # <<>> /\ h.err[Len(h.err)] = "Heap overflow"

\* One step of lisp_gdb.c: heap_ptr stays within 0 .. HEAP_SIZE, the objects
\* allocated stay as they are, a failing allocation happens at
\* heap_ptr = HEAP_SIZE only and leaves the heap as it is.
GdbHeapStep ==
  impl = "gdb" =>
    /\ Len(g.heap) <= HEAP_SIZE /\ Len(g'.heap) <= HEAP_SIZE
    /\ IsPrefix(g.heap, g'.heap)
    /\ (g.status = "running" /\ HeapOverflowed(g')) =>
         Len(g'.heap) = HEAP_SIZE
    /\ (g.status = "running" /\ Len(g.heap) = HEAP_SIZE) =>
         /\ make_atom(g, 0).m.heap = g.heap
         /\ HeapOverflowed(make_atom(g, 0).m)
         /\ make_cons(g, nil_obj, nil_obj).m.heap = g.heap
         /\ HeapOverflowed(make_cons(g, nil_obj, nil_obj).m)
         /\ Len(g'.heap) = HEAP_SIZE

\* C30: in lisp_gdb.c 0 <= heap_ptr <= HEAP_SIZE in every state, heap_ptr
\* never decreases and every object allocated stays allocated, the
\* collector never being called; make_atom or make_cons attempted at
\* heap_ptr = HEAP_SIZE writes nothing to the heap and ends the process
\* with exit status 1.
GdbHeapBound == [][GdbHeapStep]_vars

GdbHeapBoundWitness ==
  /\ impl = "gdb"
  /\ Sessions[session] = Exhaust
  /\ HeapOverflowed(g)
  /\ Len(g.heap) = HEAP_SIZE
  /\ Len(g.hist) = 4

=============================================================================
